---- MODULE Spec2Model ----
(***************************************************************************)
(* Type model and layout engine of the TON Solidity compiler               *)
(* (compiler/libsolidity/ast/Types.cpp): convertibility, common type,      *)
(* rational literal inference, storage packing and rich identifiers.       *)
(*                                                                         *)
(* Arbitrary-precision integers (boost bigint) are sequences of 15-bit     *)
(* limbs, least significant first, without leading zero limbs; rationals   *)
(* (boost rational) are a sign with a coprime numerator and denominator.   *)
(***************************************************************************)
EXTENDS Integers, Sequences, FiniteSets, TLC

\* ------------------------------------------------------------------------
\* Bounds of the model
\* ------------------------------------------------------------------------
MaxFields == 4
MaxPow2 == 257
MaxNumerator == 3
MaxDenominator == 6

\* ------------------------------------------------------------------------
\* Arbitrary-precision magnitudes (bigint >= 0): limbs of 15 bits
\* ------------------------------------------------------------------------
LimbBits == 15
Limb == 32768

\* F(x), with x evaluated once and before F is entered
With(x, F(_)) == CHOOSE y \in {F(v) : v \in {x}} : TRUE

Max(x, y) == IF x >= y THEN x ELSE y

\* drop the leading (most significant) zero limbs
MagNorm(s) ==
    LET nz == {i \in 1..Len(s) : s[i] # 0} IN
    IF nz = {} THEN <<>>
    ELSE SubSeq(s, 1, CHOOSE i \in nz : \A j \in nz : j <= i)

RECURSIVE MagFromNat(_)
MagFromNat(n) == IF n = 0 THEN <<>> ELSE <<n % Limb>> \o MagFromNat(n \div Limb)

Zeros(n) == [i \in 1..n |-> 0]

RECURSIVE SmallPow2(_)
SmallPow2(k) == IF k = 0 THEN 1 ELSE 2 * SmallPow2(k - 1)

\* 2^n
Pow2(n) == Zeros(n \div LimbBits) \o <<SmallPow2(n % LimbBits)>>

LimbAt(s, i) == IF i <= Len(s) THEN s[i] ELSE 0

\* -1, 0, 1 as a < b, a = b, a > b
MagCmp(a, b) ==
    IF Len(a) < Len(b) THEN -1
    ELSE IF Len(a) > Len(b) THEN 1
    ELSE LET df == {i \in 1..Len(a) : a[i] # b[i]} IN
         IF df = {} THEN 0
         ELSE LET t == CHOOSE i \in df : \A j \in df : j <= i
              IN IF a[t] < b[t] THEN -1 ELSE 1

MagLess(a, b) == MagCmp(a, b) < 0

\* a + b; the carry into limb i is found by carry look-ahead
MagAdd(a, b) ==
    LET n == Max(Len(a), Len(b)) + 1
        s == [i \in 1..n |-> LimbAt(a, i) + LimbAt(b, i)]
        c == [i \in 1..n |->
                IF \E j \in 1..(i - 1) :
                      s[j] >= Limb /\ \A k \in (j + 1)..(i - 1) : s[k] = Limb - 1
                THEN 1 ELSE 0]
    IN MagNorm([i \in 1..n |-> (s[i] + c[i]) % Limb])

\* a - b for a >= b; the borrow into limb i is found by look-ahead
MagSub(a, b) ==
    LET n == Len(a)
        d == [i \in 1..n |-> a[i] - LimbAt(b, i)]
        w == [i \in 1..n |->
                IF \E j \in 1..(i - 1) :
                      d[j] < 0 /\ \A k \in (j + 1)..(i - 1) : d[k] = 0
                THEN 1 ELSE 0]
    IN MagNorm([i \in 1..n |-> (d[i] - w[i] + Limb) % Limb])

\* a * m for a natural m < Limb
MagMulSmall(a, m) ==
    IF m = 0 \/ Len(a) = 0 THEN <<>>
    ELSE IF m = 1 THEN a
    ELSE MagAdd([i \in 1..Len(a) |-> (a[i] * m) % Limb],
                <<0>> \o [i \in 1..Len(a) |-> (a[i] * m) \div Limb])

RECURSIVE MagDivModSmallFrom(_, _, _, _, _)
MagDivModSmallFrom(a, d, i, rem, acc) ==
    IF i = 0 THEN [quot |-> MagNorm(acc), rem |-> rem]
    ELSE LET t == rem * Limb + a[i]
         IN MagDivModSmallFrom(a, d, i - 1, t % d, <<t \div d>> \o acc)


RECURSIVE MagMulFrom(_, _, _, _)
\* schoolbook multiplication; each partial sum is evaluated before the next
MagMulFrom(a, b, j, acc) ==
    IF j > Len(b) THEN acc
    ELSE IF b[j] = 0 THEN MagMulFrom(a, b, j + 1, acc)
    ELSE With(MagAdd(acc, Zeros(j - 1) \o MagMulSmall(a, b[j])),
              LAMBDA nacc : IF Len(nacc) >= 0 THEN MagMulFrom(a, b, j + 1, nacc)
                            ELSE <<>>)

\* a * b
MagMul(a, b) ==
    IF Len(a) = 0 \/ Len(b) = 0 THEN <<>>
    ELSE IF Len(b) = 1 THEN MagMulSmall(a, b[1])
    ELSE IF Len(a) = 1 THEN MagMulSmall(b, a[1])
    ELSE MagMulFrom(a, b, 1, <<>>)

\* a << 1
MagShl1(a) == MagMulSmall(a, 2)

RECURSIVE MagPow10(_)
\* 10^n, by squaring
MagPow10(n) ==
    IF n = 0 THEN <<1>>
    ELSE IF n < 5 THEN MagMulSmall(MagPow10(n - 1), 10)
    ELSE IF n % 2 = 1 THEN MagMulSmall(MagPow10(n - 1), 10)
    ELSE With(MagPow10(n \div 2), LAMBDA h : MagMul(h, h))

RECURSIVE SmallMsb(_)
SmallMsb(v) == IF v <= 1 THEN 0 ELSE 1 + SmallMsb(v \div 2)

\* boost::multiprecision::msb: index of the most significant set bit (a > 0)
msb(a) == LimbBits * (Len(a) - 1) + SmallMsb(a[Len(a)])

MagIsOne(a) == a = <<1>>

RECURSIVE QuotDigit(_, _, _, _)
\* the largest q in lo..hi with d * q <= r
QuotDigit(r, d, lo, hi) ==
    IF lo = hi THEN lo
    ELSE LET mid == (lo + hi + 1) \div 2 IN
         IF MagCmp(MagMulSmall(d, mid), r) <= 0 THEN QuotDigit(r, d, mid, hi)
         ELSE QuotDigit(r, d, lo, mid - 1)

RECURSIVE MagDivModFrom(_, _, _, _, _)
\* schoolbook long division, most significant limb first; each step is
\* evaluated before the next is entered
MagDivModFrom(a, d, i, rem, acc) ==
    IF i = 0 THEN [quot |-> MagNorm(acc), rem |-> rem]
    ELSE With(MagNorm(<<a[i]>> \o rem), LAMBDA r :
         With(IF MagLess(r, d) THEN 0 ELSE QuotDigit(r, d, 1, Limb - 1), LAMBDA q :
         With(IF q = 0 THEN r ELSE MagSub(r, MagMulSmall(d, q)), LAMBDA nr :
              IF Len(nr) >= 0
              THEN MagDivModFrom(a, d, i - 1, nr, <<q>> \o acc)
              ELSE [quot |-> <<>>, rem |-> <<>>])))

\* floor(a / d) and a mod d for d > 0
MagDivMod(a, d) ==
    IF MagIsOne(d) THEN [quot |-> a, rem |-> <<>>]
    ELSE IF MagLess(a, d) THEN [quot |-> <<>>, rem |-> a]
    ELSE IF Len(d) = 1
    THEN LET r == MagDivModSmallFrom(a, d[1], Len(a), 0, <<>>)
         IN [quot |-> r.quot, rem |-> MagFromNat(r.rem)]
    ELSE MagDivModFrom(a, d, Len(a), <<>>, <<>>)

MagDiv(a, d) == MagDivMod(a, d).quot
MagMod(a, d) == MagDivMod(a, d).rem

RECURSIVE MagGcd(_, _)
\* gcd(a, b) by Euclid's algorithm; gcd(a, 0) = a
MagGcd(a, b) == IF Len(b) = 0 THEN a ELSE MagGcd(b, MagMod(a, b))

\* the number of bytes needed to hold a (0 for a = 0)
MagBytes(a) == IF Len(a) = 0 THEN 0 ELSE (msb(a) \div 8) + 1

\* ------------------------------------------------------------------------
\* Signed bigint and rational
\* ------------------------------------------------------------------------
Big(neg, mag) == [neg |-> neg /\ Len(mag) > 0, mag |-> mag]
BigZero == Big(FALSE, <<>>)

BigCmp(a, b) ==
    IF a.neg /\ ~b.neg THEN -1
    ELSE IF ~a.neg /\ b.neg THEN 1
    ELSE IF a.neg THEN MagCmp(b.mag, a.mag)
    ELSE MagCmp(a.mag, b.mag)

BigLeq(a, b) == BigCmp(a, b) <= 0
BigLess(a, b) == BigCmp(a, b) < 0

\* boost::rational keeps the sign on the numerator and gcd(num, den) = 1
Rat(neg, num, den) ==
    With(MagGcd(num, den),
         LAMBDA g : [neg |-> neg /\ Len(num) > 0, num |-> MagDiv(num, g),
                     den |-> MagDiv(den, g)])

RatOfInt(n) == Rat(n < 0, MagFromNat(IF n < 0 THEN -n ELSE n), <<1>>)
RatOfBig(b) == [neg |-> b.neg, num |-> b.mag, den |-> <<1>>]
RatNumerator(r) == Big(r.neg, r.num)
RatAbs(r) == [neg |-> FALSE, num |-> r.num, den |-> r.den]

\* r1 <= r2, by cross multiplication
RatLeq(r1, r2) ==
    BigLeq(Big(r1.neg, MagMul(r1.num, r2.den)), Big(r2.neg, MagMul(r2.num, r1.den)))

\* r * 10^k
RatMulPow10(r, k) == IF k = 0 THEN r ELSE Rat(r.neg, MagMul(r.num, MagPow10(k)), r.den)
RatOfMag(m) == [neg |-> FALSE, num |-> m, den |-> <<1>>]

\* ------------------------------------------------------------------------
\* The type taxonomy: one record per Type object, tagged by its category
\* ------------------------------------------------------------------------
NoType == [cat |-> "None"]             \* a null Type pointer
IsType(t) == t.cat # "None"

AddressT == [cat |-> "Address"]
BoolT == [cat |-> "Bool"]
NullT == [cat |-> "Null"]
EmptyMapT == [cat |-> "EmptyMap"]
IntegerT(bits, signed) == [cat |-> "Integer", bits |-> bits, signed |-> signed]
VarIntegerT(n, signed) == [cat |-> "VarInteger", n |-> n, signed |-> signed]
FixedPointT(totalBits, fractionalDigits, signed) ==
    [cat |-> "FixedPoint", totalBits |-> totalBits,
     fractionalDigits |-> fractionalDigits, signed |-> signed]
FixedBytesT(numBytes) == [cat |-> "FixedBytes", numBytes |-> numBytes]
\* compatibleBytes: numBytes of m_compatibleBytesType, 0 for a null pointer
RationalT(value, compatibleBytes) ==
    [cat |-> "RationalNumber", value |-> value, compatibleBytes |-> compatibleBytes]
\* str: the literal's bytes
StringLiteralT(str) == [cat |-> "StringLiteral", str |-> str]
\* arrayKind: "Ordinary", "Bytes" or "String"; length is 0 when dynamic
ArrayT(arrayKind, baseType, dyn, length, isPointer) ==
    [cat |-> "Array", arrayKind |-> arrayKind, baseType |-> baseType,
     dyn |-> dyn, length |-> length, isPointer |-> isPointer]
ArraySliceT(arrayType) == [cat |-> "ArraySlice", arrayType |-> arrayType]
ContractT(decl, super) == [cat |-> "Contract", decl |-> decl, super |-> super]
StructT(decl, isPointer) == [cat |-> "Struct", decl |-> decl, isPointer |-> isPointer]
EnumT(decl) == [cat |-> "Enum", decl |-> decl]
UserDefinedValueT(decl) == [cat |-> "UserDefinedValueType", decl |-> decl]
MappingT(keyType, valueType) ==
    [cat |-> "Mapping", keyType |-> keyType, valueType |-> valueType]
OptionalT(valueType) == [cat |-> "Optional", valueType |-> valueType]
TupleT(components) == [cat |-> "Tuple", components |-> components]
FunctionT(kind, stateMutability, parameterTypes, returnParameterTypes, bound) ==
    [cat |-> "Function", kind |-> kind, stateMutability |-> stateMutability,
     parameterTypes |-> parameterTypes,
     returnParameterTypes |-> returnParameterTypes, bound |-> bound]
TypeTypeT(actualType) == [cat |-> "TypeType", actualType |-> actualType]
ModifierT(parameterTypes) == [cat |-> "Modifier", parameterTypes |-> parameterTypes]
ModuleT(decl) == [cat |-> "Module", decl |-> decl]
MagicT(kind, typeArgument) ==
    [cat |-> "Magic", kind |-> kind, typeArgument |-> typeArgument]

\* Declarations of the analysed source: AST id -> name and, for contracts,
\* annotation().linearizedBaseContracts
DeclName(id) ==
    CASE id = 1 -> "C" [] id = 2 -> "D" [] id = 3 -> "S" [] id = 4 -> "S"
      [] id = 5 -> "E" [] id = 6 -> "F" [] id = 7 -> "U" [] OTHER -> "M"
linearizedBaseContracts(id) == IF id = 2 THEN <<2, 1>> ELSE <<id>>

uint8 == IntegerT(8, FALSE)
uint16 == IntegerT(16, FALSE)
uint256 == IntegerT(256, FALSE)
int8 == IntegerT(8, TRUE)
bytesMemory == ArrayT("Bytes", FixedBytesT(1), TRUE, 0, TRUE)
stringMemory == ArrayT("String", FixedBytesT(1), TRUE, 0, TRUE)
emptyTuple == TupleT(<<>>)

isByteArray(t) == t.arrayKind = "Bytes"
isString(t) == t.arrayKind = "String"
isByteArrayOrString(t) == t.arrayKind # "Ordinary"

\* ------------------------------------------------------------------------
\* operator== per category
\* ------------------------------------------------------------------------
RECURSIVE TypeEq(_, _)

\* equal(begin, end, begin2, *a == *b) after the size check
TypeListEq(l1, l2) ==
    Len(l1) = Len(l2) /\ \A i \in 1..Len(l1) : TypeEq(l1[i], l2[i])

\* Type::operator==, the default of the categories that carry no data
Type_operatorEq(a, b) == b.cat = a.cat

AddressType_operatorEq(a, b) == b.cat = a.cat

IntegerType_operatorEq(a, b) ==
    IF b.cat # a.cat THEN FALSE
    ELSE b.bits = a.bits /\ b.signed = a.signed

VarInteger_operatorEq(a, b) ==
    IF b.cat # a.cat THEN FALSE
    ELSE b.n = a.n /\ b.signed = a.signed

FixedPointType_operatorEq(a, b) ==
    IF b.cat # a.cat THEN FALSE
    ELSE b.totalBits = a.totalBits /\ b.fractionalDigits = a.fractionalDigits
         /\ b.signed = a.signed

RationalNumberType_operatorEq(a, b) ==
    IF b.cat # a.cat THEN FALSE
    ELSE a.value = b.value

StringLiteralType_operatorEq(a, b) ==
    IF b.cat # a.cat THEN FALSE
    ELSE a.str = b.str

FixedBytesType_operatorEq(a, b) ==
    IF b.cat # a.cat THEN FALSE
    ELSE b.numBytes = a.numBytes

ReferenceType_operatorEq(a, b) == a.isPointer = b.isPointer

ArrayType_operatorEq(a, b) ==
    IF b.cat # a.cat THEN FALSE
    ELSE IF \/ ~ReferenceType_operatorEq(a, b)
            \/ isByteArray(b) # isByteArray(a)
            \/ isString(b) # isString(a)
            \/ b.dyn # a.dyn
    THEN FALSE
    ELSE IF ~TypeEq(b.baseType, a.baseType) THEN FALSE
    ELSE a.dyn \/ a.length = b.length

ArraySliceType_operatorEq(a, b) ==
    IF b.cat = "ArraySlice" THEN ArrayType_operatorEq(a.arrayType, b.arrayType)
    ELSE FALSE

ContractType_operatorEq(a, b) ==
    IF b.cat # a.cat THEN FALSE
    ELSE b.decl = a.decl /\ b.super = a.super

StructType_operatorEq(a, b) ==
    IF b.cat # a.cat THEN FALSE
    ELSE b.decl = a.decl

EnumType_operatorEq(a, b) ==
    IF b.cat # a.cat THEN FALSE
    ELSE b.decl = a.decl

UserDefinedValueType_operatorEq(a, b) ==
    IF b.cat # a.cat THEN FALSE
    ELSE b.decl = a.decl

TupleType_operatorEq(a, b) ==
    IF b.cat = "Tuple" /\ Len(a.components) = Len(b.components)
    THEN \A i \in 1..Len(a.components) :
            IsType(b.components[i]) =>
                IsType(a.components[i]) /\ TypeEq(a.components[i], b.components[i])
    ELSE FALSE

hasEqualParameterTypes(a, b) == TypeListEq(a.parameterTypes, b.parameterTypes)
hasEqualReturnTypes(a, b) == TypeListEq(a.returnParameterTypes, b.returnParameterTypes)

equalExcludingStateMutability(a, b) ==
    IF a.kind # b.kind THEN FALSE
    ELSE IF ~hasEqualParameterTypes(a, b) \/ ~hasEqualReturnTypes(a, b) THEN FALSE
    ELSE IF a.bound # b.bound THEN FALSE
    ELSE TRUE

FunctionType_operatorEq(a, b) ==
    IF b.cat # a.cat THEN FALSE
    ELSE IF ~equalExcludingStateMutability(a, b) THEN FALSE
    ELSE IF a.stateMutability # b.stateMutability THEN FALSE
    ELSE TRUE

MappingType_operatorEq(a, b) ==
    IF b.cat # a.cat THEN FALSE
    ELSE TypeEq(b.keyType, a.keyType) /\ TypeEq(b.valueType, a.valueType)

OptionalType_operatorEq(a, b) ==
    IF b.cat # a.cat THEN FALSE
    ELSE TypeEq(b.valueType, a.valueType)

NullType_operatorEq(a, b) == b.cat = a.cat
EmptyMapType_operatorEq(a, b) == b.cat = a.cat

TypeType_operatorEq(a, b) ==
    IF b.cat # a.cat THEN FALSE
    ELSE TypeEq(a.actualType, b.actualType)

ModifierType_operatorEq(a, b) ==
    IF b.cat # a.cat THEN FALSE
    ELSE TypeListEq(a.parameterTypes, b.parameterTypes)

ModuleType_operatorEq(a, b) ==
    IF b.cat # a.cat THEN FALSE
    ELSE a.decl = b.decl

MagicType_operatorEq(a, b) ==
    IF b.cat # a.cat THEN FALSE
    ELSE b.kind = a.kind

\* the virtual operator== of a, applied to b
TypeEq(a, b) ==
    CASE a.cat = "Address" -> AddressType_operatorEq(a, b)
      [] a.cat = "Integer" -> IntegerType_operatorEq(a, b)
      [] a.cat = "VarInteger" -> VarInteger_operatorEq(a, b)
      [] a.cat = "FixedPoint" -> FixedPointType_operatorEq(a, b)
      [] a.cat = "RationalNumber" -> RationalNumberType_operatorEq(a, b)
      [] a.cat = "StringLiteral" -> StringLiteralType_operatorEq(a, b)
      [] a.cat = "FixedBytes" -> FixedBytesType_operatorEq(a, b)
      [] a.cat = "Array" -> ArrayType_operatorEq(a, b)
      [] a.cat = "ArraySlice" -> ArraySliceType_operatorEq(a, b)
      [] a.cat = "Contract" -> ContractType_operatorEq(a, b)
      [] a.cat = "Struct" -> StructType_operatorEq(a, b)
      [] a.cat = "Enum" -> EnumType_operatorEq(a, b)
      [] a.cat = "UserDefinedValueType" -> UserDefinedValueType_operatorEq(a, b)
      [] a.cat = "Tuple" -> TupleType_operatorEq(a, b)
      [] a.cat = "Function" -> FunctionType_operatorEq(a, b)
      [] a.cat = "Mapping" -> MappingType_operatorEq(a, b)
      [] a.cat = "Optional" -> OptionalType_operatorEq(a, b)
      [] a.cat = "Null" -> NullType_operatorEq(a, b)
      [] a.cat = "EmptyMap" -> EmptyMapType_operatorEq(a, b)
      [] a.cat = "TypeType" -> TypeType_operatorEq(a, b)
      [] a.cat = "Modifier" -> ModifierType_operatorEq(a, b)
      [] a.cat = "Module" -> ModuleType_operatorEq(a, b)
      [] a.cat = "Magic" -> MagicType_operatorEq(a, b)
      [] OTHER -> Type_operatorEq(a, b)

\* ------------------------------------------------------------------------
\* Integer and fixed-point ranges
\* ------------------------------------------------------------------------
\* IntegerType::minValue / maxValue
minValue(t) ==
    IF t.signed THEN Big(TRUE, Pow2(t.bits - 1)) ELSE BigZero

maxValue(t) ==
    IF t.signed THEN Big(FALSE, MagSub(Pow2(t.bits - 1), <<1>>))
    ELSE Big(FALSE, MagSub(Pow2(t.bits), <<1>>))

\* FixedPointType::maxIntegerValue / minIntegerValue (bigint division
\* truncates towards zero)
maxIntegerValue(t) ==
    LET maxV == MagSub(Pow2(t.totalBits - (IF t.signed THEN 1 ELSE 0)), <<1>>)
    IN Big(FALSE, MagDiv(maxV, MagPow10(t.fractionalDigits)))

minIntegerValue(t) ==
    IF t.signed
    THEN LET minV == Pow2(t.totalBits - (IF t.signed THEN 1 ELSE 0))
         IN Big(TRUE, MagDiv(minV, MagPow10(t.fractionalDigits)))
    ELSE BigZero

\* VarInteger::asIntegerType: the value of varUintN / varIntN has (N - 1) bytes
asIntegerType(t) == IntegerT((t.n - 1) * 8, t.signed)

\* fitsIntegerType (anonymous namespace)
fitsIntegerType(value, type) ==
    IF value.neg /\ ~type.signed THEN FALSE
    ELSE IF BigLess(value, minValue(type)) \/ BigLess(maxValue(type), value) THEN FALSE
    ELSE TRUE

\* fitsIntoBits (anonymous namespace)
fitsIntoBits(value, bits, signed) == fitsIntegerType(value, IntegerT(bits, signed))

\* ------------------------------------------------------------------------
\* Rational literals
\* ------------------------------------------------------------------------
isFractional(t) == ~MagIsOne(t.value.den)
isNegative(t) == t.value.neg

\* libsolutil numberEncodingSize: bytes needed for a non-negative number
numberEncodingSize(mag) == MagBytes(mag)

u256Max == MagSub(Pow2(256), <<1>>)

\* integerType without the conversion of a negative value to the positive
\* number of the same bit requirements
integerType_unadjusted(t) ==
    With(t.value.num,
         LAMBDA value :
         IF MagLess(u256Max, value) THEN NoType
         ELSE IntegerT(Max(numberEncodingSize(value), 1) * 8, t.value.neg))

\* RationalNumberType::integerType
integerType(t) ==
    With(IF t.value.neg THEN MagShl1(MagSub(t.value.num, <<1>>)) ELSE t.value.num,
         LAMBDA value :
         IF MagLess(u256Max, value) THEN NoType
         ELSE IntegerT(Max(numberEncodingSize(value), 1) * 8, t.value.neg))

\* the loop condition without the test of the denominator
FixedPointLoopContinues_untilFull(value, maxV, k) ==
    /\ RatLeq([value EXCEPT !.num = MagMul(@, MagPow10(k + 1))], maxV)
    /\ k < 80

\* the condition of fixedPointType's while loop when it is tested for the
\* (k + 1)-th time: value has been multiplied by 10 k times
FixedPointLoopContinues(value, maxV, k) ==
    /\ RatLeq([value EXCEPT !.num = MagMul(@, MagPow10(k + 1))], maxV)
    /\ Len(MagMod(MagPow10(k), value.den)) # 0
    /\ k < 80

\* the while loop of RationalNumberType::fixedPointType: it leaves at the
\* first test that fails, with value multiplied by 10 once per passed test
FixedPointLoop(value, maxV) ==
    With(CHOOSE k \in 0..80 : /\ ~FixedPointLoopContinues(value, maxV, k)
                              /\ \A j \in 0..(k - 1) : FixedPointLoopContinues(value, maxV, j),
         LAMBDA fractionalDigits :
            [value |-> RatMulPow10(value, fractionalDigits),
             fractionalDigits |-> fractionalDigits])

\* maxValue of RationalNumberType::fixedPointType
FixedPointMaxValue(negative) ==
    IF negative THEN RatOfMag(Pow2(255)) ELSE RatOfMag(u256Max)

\* RationalNumberType::fixedPointType
fixedPointType(t) ==
    With(FixedPointLoop(RatAbs(t.value), FixedPointMaxValue(t.value.neg)), LAMBDA loop :
         IF ~RatLeq(loop.value, FixedPointMaxValue(t.value.neg)) THEN NoType
         ELSE With(MagDiv(loop.value.num, loop.value.den), LAMBDA q :
              With(IF t.value.neg /\ Len(q) # 0 THEN MagShl1(MagSub(q, <<1>>)) ELSE q,
                   LAMBDA v :
                   IF MagLess(u256Max, v) THEN NoType
                   ELSE FixedPointT(Max(numberEncodingSize(v), 1) * 8,
                                    loop.fractionalDigits, t.value.neg))))

\* RationalNumberType::mobileType
RationalNumberType_mobileType(t) ==
    IF ~isFractional(t) THEN integerType(t) ELSE fixedPointType(t)

\* ------------------------------------------------------------------------
\* RationalNumberType::binaryOperatorResult on two literals.  A literal that
\* may need thousands of bits holds m_value as (num / den) * 2^exp with num
\* and den odd and coprime (zero is 0 / 1 * 2^0).
\* ------------------------------------------------------------------------
PrecisionBits == 4096

Scaled(neg, num, den, exp) ==
    With(Rat(neg, num, den),
         LAMBDA r : [neg |-> r.neg, num |-> r.num, den |-> r.den,
                     exp |-> IF Len(r.num) = 0 THEN 0 ELSE exp])

\* boost::multiprecision::msb(abs(value.numerator()))
numeratorMsb(v) == msb(v.num) + (IF v.exp > 0 THEN v.exp ELSE 0)
\* boost::multiprecision::msb(abs(value.denominator()))
denominatorMsb(v) == msb(v.den) + (IF v.exp < 0 THEN -v.exp ELSE 0)

\* ConstantEvaluator::evaluateBinaryOperator for Token::Mul and Token::Div:
\* <<value>>, or <<>> for nullopt (division by zero)
evaluateBinaryOperator(operator, left, right) ==
    CASE operator = "Mul" ->
            <<Scaled(left.neg # right.neg, MagMul(left.num, right.num),
                     MagMul(left.den, right.den), left.exp + right.exp)>>
      [] operator = "Div" ->
            IF Len(right.num) = 0 THEN <<>>
            ELSE <<Scaled(left.neg # right.neg, MagMul(left.num, right.den),
                          MagMul(left.den, right.num), left.exp - right.exp)>>

TypeResult(type) == [type |-> type, err |-> ""]
TypeResultErr(message) == [type |-> NoType, err |-> message]

\* the precision test of binaryOperatorResult
PrecisionExceeded(value) ==
    Len(value.num) # 0 /\ Max(numeratorMsb(value), denominatorMsb(value)) > PrecisionBits

\* RationalNumberType::binaryOperatorResult for an operand other that is
\* neither an integer nor a fixed-point type, and an arithmetic operator
binaryOperatorResult(self, operator, other) ==
    IF other.cat # self.cat THEN TypeResult(NoType)
    ELSE With(evaluateBinaryOperator(operator, self.value, other.value), LAMBDA value :
              IF Len(value) # 0
              THEN IF PrecisionExceeded(value[1])
                   THEN TypeResultErr(
                           "Precision of rational constants is limited to 4096 bits.")
                   ELSE TypeResult(RationalT(value[1], 0))
              ELSE TypeResult(NoType))

\* ------------------------------------------------------------------------
\* mobileType
\* ------------------------------------------------------------------------
RECURSIVE mobileType(_)
RECURSIVE isDynamicallyEncoded(_)

\* Type::mobileType: a concrete type is its own mobile type
Type_mobileType(t) == t

StringLiteralType_mobileType(t) == stringMemory

ArrayType_isDynamicallyEncoded(t) == t.dyn \/ isDynamicallyEncoded(t.baseType)

isDynamicallyEncoded(t) ==
    IF t.cat = "Array" THEN ArrayType_isDynamicallyEncoded(t) ELSE FALSE

ArraySliceType_mobileType(t) ==
    IF t.arrayType.dyn /\ ~isDynamicallyEncoded(t.arrayType.baseType)
    THEN t.arrayType
    ELSE t

TupleType_mobileType(t) ==
    LET mobiles == [i \in 1..Len(t.components) |->
                      IF IsType(t.components[i]) THEN mobileType(t.components[i])
                      ELSE NoType]
    IN IF \E i \in 1..Len(t.components) :
             IsType(t.components[i]) /\ ~IsType(mobiles[i])
       THEN NoType
       ELSE TupleT(mobiles)

\* valueSet / gasSet / saltSet are not modelled (never set on the types here)
FunctionType_mobileType(t) == IF t.bound THEN NoType ELSE t

mobileType(t) ==
    CASE t.cat = "RationalNumber" -> RationalNumberType_mobileType(t)
      [] t.cat = "StringLiteral" -> StringLiteralType_mobileType(t)
      [] t.cat = "ArraySlice" -> ArraySliceType_mobileType(t)
      [] t.cat = "Tuple" -> TupleType_mobileType(t)
      [] t.cat = "Function" -> FunctionType_mobileType(t)
      [] OTHER -> Type_mobileType(t)

\* ------------------------------------------------------------------------
\* isImplicitlyConvertibleTo per category (a BoolResult is its boolean)
\* ------------------------------------------------------------------------
RECURSIVE isImplicitlyConvertibleTo(_, _)

\* Type::isImplicitlyConvertibleTo; the inner call is virtual
Type_isImplicitlyConvertibleTo(self, other) ==
    IF TypeEq(self, other) THEN TRUE
    ELSE IF other.cat = "Optional" /\ isImplicitlyConvertibleTo(self, other.valueType)
    THEN TRUE
    ELSE FALSE

AddressType_isImplicitlyConvertibleTo(self, convertTo) ==
    IF Type_isImplicitlyConvertibleTo(self, convertTo) THEN TRUE
    ELSE convertTo.cat = self.cat

IntegerType_isImplicitlyConvertibleTo(self, convertTo) ==
    IF Type_isImplicitlyConvertibleTo(self, convertTo) THEN TRUE
    ELSE IF convertTo.cat = "VarInteger"
    THEN LET to == asIntegerType(convertTo) IN
         IF to.bits < self.bits THEN FALSE
         ELSE IF self.signed THEN to.signed
         ELSE ~to.signed \/ to.bits > self.bits
    ELSE IF convertTo.cat = self.cat
    THEN IF self.signed # convertTo.signed THEN FALSE
         ELSE IF convertTo.bits < self.bits THEN FALSE
         ELSE TRUE
    ELSE IF convertTo.cat = "FixedPoint"
    THEN /\ BigLeq(maxValue(self), maxIntegerValue(convertTo))
         /\ BigLeq(minIntegerValue(convertTo), minValue(self))
    ELSE IF convertTo.cat = "Function"
    THEN convertTo.kind = "Internal"
    ELSE FALSE

\* VarInteger forwards to its member m_int, an IntegerType object
VarInteger_isImplicitlyConvertibleTo(self, convertTo) ==
    IntegerType_isImplicitlyConvertibleTo(asIntegerType(self), convertTo)

FixedPointType_isImplicitlyConvertibleTo(self, convertTo) ==
    IF Type_isImplicitlyConvertibleTo(self, convertTo) THEN TRUE
    ELSE IF convertTo.cat = self.cat
    THEN IF convertTo.fractionalDigits < self.fractionalDigits THEN FALSE
         ELSE IF convertTo.totalBits < self.totalBits THEN FALSE
         ELSE /\ BigLeq(maxIntegerValue(self), maxIntegerValue(convertTo))
              /\ BigLeq(minIntegerValue(convertTo), minIntegerValue(self))
    ELSE FALSE

RationalNumberType_isImplicitlyConvertibleTo(self, convertTo) ==
    IF Type_isImplicitlyConvertibleTo(self, convertTo) THEN TRUE
    ELSE CASE convertTo.cat = "VarInteger" ->
                IF isFractional(self) THEN FALSE
                ELSE fitsIntegerType(RatNumerator(self.value), asIntegerType(convertTo))
           [] convertTo.cat = "Integer" ->
                IF isFractional(self) THEN FALSE
                ELSE fitsIntegerType(RatNumerator(self.value), convertTo)
           [] convertTo.cat = "FixedPoint" ->
                IF isNegative(self) /\ ~convertTo.signed THEN FALSE
                ELSE IF ~isFractional(self)
                THEN /\ RatLeq(RatOfBig(minIntegerValue(convertTo)), self.value)
                     /\ RatLeq(self.value, RatOfBig(maxIntegerValue(convertTo)))
                ELSE With(RatMulPow10(self.value, convertTo.fractionalDigits),
                          LAMBDA value :
                          IF ~MagIsOne(value.den) THEN FALSE
                          ELSE fitsIntoBits(RatNumerator(value), convertTo.totalBits,
                                            convertTo.signed))
           [] convertTo.cat = "FixedBytes" ->
                \/ Len(self.value.num) = 0
                \/ (self.compatibleBytes # 0
                    /\ FixedBytesType_operatorEq(FixedBytesT(self.compatibleBytes), convertTo))
           [] OTHER -> FALSE

\* util::validateUTF8 on the strings of the model: ASCII bytes are valid, a
\* byte 0xFF never is
validateUTF8(str) == \A i \in 1..Len(str) : str[i] < 128

StringLiteralType_isImplicitlyConvertibleTo(self, convertTo) ==
    IF Type_isImplicitlyConvertibleTo(self, convertTo) THEN TRUE
    ELSE IF convertTo.cat = "FixedBytes"
    THEN IF convertTo.numBytes < Len(self.str) THEN FALSE ELSE TRUE
    ELSE IF convertTo.cat = "Array"
    THEN IF isString(convertTo) /\ ~validateUTF8(self.str) THEN FALSE
         ELSE isByteArrayOrString(convertTo)
    ELSE FALSE

FixedBytesType_isImplicitlyConvertibleTo(self, convertTo) ==
    IF Type_isImplicitlyConvertibleTo(self, convertTo) THEN TRUE
    ELSE IF convertTo.cat # self.cat THEN FALSE
    ELSE convertTo.numBytes >= self.numBytes

\* ContractType::isImplicitlyConvertibleTo without the m_super guard
ContractType_isImplicitlyConvertibleTo_noSuperGuard(self, convertTo) ==
    IF Type_isImplicitlyConvertibleTo(self, convertTo) THEN TRUE
    ELSE IF ContractType_operatorEq(self, convertTo) THEN TRUE
    ELSE IF convertTo.cat = "Contract"
    THEN IF convertTo.super THEN FALSE
         ELSE \E i \in 1..Len(linearizedBaseContracts(self.decl)) :
                 linearizedBaseContracts(self.decl)[i] = convertTo.decl
    ELSE IF convertTo.cat = "Address" THEN TRUE
    ELSE FALSE

ContractType_isImplicitlyConvertibleTo(self, convertTo) ==
    IF Type_isImplicitlyConvertibleTo(self, convertTo) THEN TRUE
    ELSE IF self.super THEN FALSE
    ELSE IF ContractType_operatorEq(self, convertTo) THEN TRUE
    ELSE IF convertTo.cat = "Contract"
    THEN IF convertTo.super THEN FALSE
         ELSE \E i \in 1..Len(linearizedBaseContracts(self.decl)) :
                 linearizedBaseContracts(self.decl)[i] = convertTo.decl
    ELSE IF convertTo.cat = "Address" THEN TRUE
    ELSE FALSE

RECURSIVE UnwrapArrays(_, _)
\* the while loop of ArrayType::isImplicitlyConvertibleTo
UnwrapArrays(t0, t1) ==
    IF t0.cat = "Array" /\ t1.cat = "Array"
    THEN UnwrapArrays(t0.baseType, t1.baseType)
    ELSE <<t0, t1>>

ArrayType_isImplicitlyConvertibleTo(self, convertTo) ==
    IF Type_isImplicitlyConvertibleTo(self, convertTo) THEN TRUE
    ELSE IF convertTo.cat # self.cat THEN FALSE
    ELSE IF isByteArrayOrString(self) /\ isByteArrayOrString(convertTo) THEN TRUE
    ELSE IF isByteArray(self) # isByteArray(convertTo) THEN FALSE
    ELSE LET u == UnwrapArrays(self.baseType, convertTo.baseType)
         IN TypeEq(u[1], u[2])

ArraySliceType_isImplicitlyConvertibleTo(self, other) ==
    IF Type_isImplicitlyConvertibleTo(self, other) THEN TRUE
    ELSE IF self.arrayType.dyn /\ ArrayType_operatorEq(self.arrayType, other) THEN TRUE
    ELSE ArraySliceType_operatorEq(self, other)

StructType_isImplicitlyConvertibleTo(self, convertTo) ==
    IF Type_isImplicitlyConvertibleTo(self, convertTo) THEN TRUE
    ELSE IF convertTo.cat # self.cat THEN FALSE
    ELSE self.decl = convertTo.decl

TupleType_isImplicitlyConvertibleTo(self, other) ==
    IF Type_isImplicitlyConvertibleTo(self, other) THEN TRUE
    ELSE IF other.cat = "Tuple"
    THEN LET targets == other.components IN
         IF Len(targets) = 0 THEN Len(self.components) = 0
         ELSE IF Len(self.components) # Len(targets) THEN FALSE
         ELSE \A i \in 1..Len(targets) :
                 /\ ~(~IsType(self.components[i]) /\ IsType(targets[i]))
                 /\ ~(/\ IsType(self.components[i]) /\ IsType(targets[i])
                      /\ ~isImplicitlyConvertibleTo(self.components[i], targets[i]))
    ELSE FALSE

\* StateMutability in declaration order: pure < view < nonpayable < payable
MutabilityRank(m) ==
    CASE m = "pure" -> 0 [] m = "view" -> 1 [] m = "nonpayable" -> 2 [] m = "payable" -> 3

FunctionType_isImplicitlyConvertibleTo(self, convertTo) ==
    IF Type_isImplicitlyConvertibleTo(self, convertTo) THEN TRUE
    ELSE IF convertTo.cat # self.cat THEN FALSE
    ELSE IF convertTo.bound # self.bound THEN FALSE
    ELSE IF convertTo.kind # self.kind THEN FALSE
    ELSE IF ~equalExcludingStateMutability(self, convertTo) THEN FALSE
    ELSE IF MutabilityRank(self.stateMutability) > MutabilityRank(convertTo.stateMutability)
    THEN FALSE
    ELSE TRUE

MappingType_isImplicitlyConvertibleTo(self, other) ==
    IF Type_isImplicitlyConvertibleTo(self, other) THEN TRUE
    ELSE IF other.cat # self.cat THEN FALSE
    ELSE TypeEq(self.keyType, other.keyType) /\ TypeEq(self.valueType, other.valueType)

OptionalType_isImplicitlyConvertibleTo(self, other) ==
    IF Type_isImplicitlyConvertibleTo(self, other) THEN TRUE
    ELSE IF /\ other.cat = "Optional"
            /\ \/ isImplicitlyConvertibleTo(self, other.valueType)
               \/ isImplicitlyConvertibleTo(self.valueType, other.valueType)
    THEN TRUE
    ELSE OptionalType_operatorEq(self, other)

NullType_isImplicitlyConvertibleTo(self, other) == other.cat = "Optional"

EmptyMapType_isImplicitlyConvertibleTo(self, other) == other.cat = "Mapping"

\* the virtual isImplicitlyConvertibleTo of self, applied to other
isImplicitlyConvertibleTo(self, other) ==
    CASE self.cat = "Address" -> AddressType_isImplicitlyConvertibleTo(self, other)
      [] self.cat = "Integer" -> IntegerType_isImplicitlyConvertibleTo(self, other)
      [] self.cat = "VarInteger" -> VarInteger_isImplicitlyConvertibleTo(self, other)
      [] self.cat = "FixedPoint" -> FixedPointType_isImplicitlyConvertibleTo(self, other)
      [] self.cat = "RationalNumber" ->
            RationalNumberType_isImplicitlyConvertibleTo(self, other)
      [] self.cat = "StringLiteral" ->
            StringLiteralType_isImplicitlyConvertibleTo(self, other)
      [] self.cat = "FixedBytes" -> FixedBytesType_isImplicitlyConvertibleTo(self, other)
      [] self.cat = "Contract" -> ContractType_isImplicitlyConvertibleTo(self, other)
      [] self.cat = "Array" -> ArrayType_isImplicitlyConvertibleTo(self, other)
      [] self.cat = "ArraySlice" -> ArraySliceType_isImplicitlyConvertibleTo(self, other)
      [] self.cat = "Struct" -> StructType_isImplicitlyConvertibleTo(self, other)
      [] self.cat = "Tuple" -> TupleType_isImplicitlyConvertibleTo(self, other)
      [] self.cat = "Function" -> FunctionType_isImplicitlyConvertibleTo(self, other)
      [] self.cat = "Mapping" -> MappingType_isImplicitlyConvertibleTo(self, other)
      [] self.cat = "Optional" -> OptionalType_isImplicitlyConvertibleTo(self, other)
      [] self.cat = "Null" -> NullType_isImplicitlyConvertibleTo(self, other)
      [] self.cat = "EmptyMap" -> EmptyMapType_isImplicitlyConvertibleTo(self, other)
      [] OTHER -> Type_isImplicitlyConvertibleTo(self, other)

\* commonType trying the second operand's mobile type first
commonType_secondFirst(a, b) ==
    IF ~IsType(a) \/ ~IsType(b) THEN NoType
    ELSE IF IsType(mobileType(b)) /\ isImplicitlyConvertibleTo(a, mobileType(b))
    THEN mobileType(b)
    ELSE IF IsType(mobileType(a)) /\ isImplicitlyConvertibleTo(b, mobileType(a))
    THEN mobileType(a)
    ELSE NoType

\* Type::commonType
commonType(a, b) ==
    IF ~IsType(a) \/ ~IsType(b) THEN NoType
    ELSE IF IsType(mobileType(a)) /\ isImplicitlyConvertibleTo(b, mobileType(a))
    THEN mobileType(a)
    ELSE IF IsType(mobileType(b)) /\ isImplicitlyConvertibleTo(a, mobileType(b))
    THEN mobileType(b)
    ELSE NoType

\* ------------------------------------------------------------------------
\* isExplicitlyConvertibleTo per category
\* ------------------------------------------------------------------------
RECURSIVE isExplicitlyConvertibleTo(_, _)

\* Type::isExplicitlyConvertibleTo, the default of the base class: explicit
\* conversion is what implicit conversion allows
Type_isExplicitlyConvertibleTo(self, convertTo) ==
    isImplicitlyConvertibleTo(self, convertTo)

AddressType_isExplicitlyConvertibleTo(self, convertTo) ==
    IF convertTo.cat = self.cat \/ isImplicitlyConvertibleTo(self, convertTo) THEN TRUE
    ELSE IF convertTo.cat = "Contract" THEN TRUE
    ELSE isImplicitlyConvertibleTo(self, convertTo)

IntegerType_isExplicitlyConvertibleTo(self, convertTo) ==
    \/ convertTo.cat = self.cat
    \/ convertTo.cat = "VarInteger"
    \/ convertTo.cat = "Address"
    \/ convertTo.cat = "Contract"
    \/ convertTo.cat = "Enum"
    \/ (convertTo.cat = "FixedBytes" /\ self.bits = convertTo.numBytes * 8)
    \/ convertTo.cat = "FixedPoint"

\* VarInteger forwards to its member m_int
VarInteger_isExplicitlyConvertibleTo(self, convertTo) ==
    IntegerType_isExplicitlyConvertibleTo(asIntegerType(self), convertTo)

FixedPointType_isExplicitlyConvertibleTo(self, convertTo) ==
    \/ convertTo.cat = self.cat
    \/ convertTo.cat = "Integer"
    \/ convertTo.cat = "VarInteger"

\* EnumDefinition::members().size(): the enums of the model have two members
numberOfMembers(t) == 2

RationalNumberType_isExplicitlyConvertibleTo(self, convertTo) ==
    IF isImplicitlyConvertibleTo(self, convertTo) THEN TRUE
    ELSE IF convertTo.cat = "FixedBytes" THEN FALSE
    ELSE IF convertTo.cat = "Integer" THEN TRUE
    ELSE IF /\ convertTo.cat = "Enum"
            /\ \/ isNegative(self)
               \/ isFractional(self)
               \/ RatLeq(RatOfInt(numberOfMembers(convertTo)), self.value)
    THEN FALSE
    ELSE With(mobileType(self), LAMBDA mobType :
              IsType(mobType) /\ isExplicitlyConvertibleTo(mobType, convertTo))

FixedBytesType_isExplicitlyConvertibleTo(self, convertTo) ==
    IF convertTo.cat = "Array" /\ isByteArray(convertTo) THEN TRUE
    ELSE \/ (convertTo.cat = "Integer" /\ self.numBytes * 8 = convertTo.bits)
         \/ convertTo.cat = "FixedPoint"
         \/ convertTo.cat = self.cat

ContractType_isExplicitlyConvertibleTo(self, convertTo) ==
    IF self.super THEN FALSE
    ELSE IF convertTo.cat = "Address" THEN TRUE
    ELSE isImplicitlyConvertibleTo(self, convertTo)

ArrayType_isExplicitlyConvertibleTo(self, convertTo) ==
    IF isImplicitlyConvertibleTo(self, convertTo) THEN TRUE
    ELSE IF isByteArray(self) /\ convertTo.cat = "FixedBytes" THEN TRUE
    ELSE IF convertTo.cat # self.cat
    THEN isByteArrayOrString(self) /\ convertTo.cat = "FixedBytes"
    ELSE IF ~isByteArrayOrString(self) \/ ~isByteArrayOrString(convertTo) THEN FALSE
    ELSE TRUE

ArraySliceType_isExplicitlyConvertibleTo(self, convertTo) ==
    \/ isImplicitlyConvertibleTo(self, convertTo)
    \/ ArrayType_isExplicitlyConvertibleTo(self.arrayType, convertTo)

EnumType_isExplicitlyConvertibleTo(self, convertTo) ==
    IF TypeEq(convertTo, self) THEN TRUE
    ELSE IF convertTo.cat = "Integer" THEN ~convertTo.signed
    ELSE FALSE

FunctionType_isExplicitlyConvertibleTo(self, convertTo) ==
    IF convertTo.cat = self.cat
    THEN (self.kind = "Declaration") = (convertTo.kind = "Declaration")
    ELSE FALSE

\* no contract of the model is a library
TypeType_isExplicitlyConvertibleTo(self, convertTo) ==
    IF convertTo.cat = "Address" /\ self.actualType.cat = "Contract" THEN FALSE
    ELSE isImplicitlyConvertibleTo(self, convertTo)

\* the virtual isExplicitlyConvertibleTo of self, applied to convertTo
isExplicitlyConvertibleTo(self, convertTo) ==
    CASE self.cat = "Address" -> AddressType_isExplicitlyConvertibleTo(self, convertTo)
      [] self.cat = "Integer" -> IntegerType_isExplicitlyConvertibleTo(self, convertTo)
      [] self.cat = "VarInteger" -> VarInteger_isExplicitlyConvertibleTo(self, convertTo)
      [] self.cat = "FixedPoint" -> FixedPointType_isExplicitlyConvertibleTo(self, convertTo)
      [] self.cat = "RationalNumber" ->
            RationalNumberType_isExplicitlyConvertibleTo(self, convertTo)
      [] self.cat = "FixedBytes" -> FixedBytesType_isExplicitlyConvertibleTo(self, convertTo)
      [] self.cat = "Contract" -> ContractType_isExplicitlyConvertibleTo(self, convertTo)
      [] self.cat = "Array" -> ArrayType_isExplicitlyConvertibleTo(self, convertTo)
      [] self.cat = "ArraySlice" -> ArraySliceType_isExplicitlyConvertibleTo(self, convertTo)
      [] self.cat = "Enum" -> EnumType_isExplicitlyConvertibleTo(self, convertTo)
      [] self.cat = "Function" -> FunctionType_isExplicitlyConvertibleTo(self, convertTo)
      [] self.cat = "TypeType" -> TypeType_isExplicitlyConvertibleTo(self, convertTo)
      [] OTHER -> Type_isExplicitlyConvertibleTo(self, convertTo)

\* ------------------------------------------------------------------------
\* interfaceType, encodingType, fullEncodingType
\* ------------------------------------------------------------------------
RECURSIVE interfaceType(_, _)

\* TypeProvider::withLocation: the reference type with the given pointer flag
withLocation(t, isPointer) == [t EXCEPT !.isPointer = isPointer]

\* Type::encodingType and the overrides of the header: a value type encodes
\* as itself, a type without an override has no encoding
Type_encodingType(t) ==
    IF t.cat \in {"Address", "Bool", "Integer", "VarInteger", "FixedPoint", "FixedBytes",
                  "Optional", "UserDefinedValueType"}
    THEN t
    ELSE NoType

ContractType_encodingType(t) == IF t.super THEN NoType ELSE AddressT

ArrayType_encodingType(t) == withLocation(t, TRUE)

StructType_encodingType(t) == t

EnumType_encodingType(t) == uint8

\* gasSet / valueSet are never set on the types of the model
FunctionType_encodingType(t) == IF t.kind = "External" THEN t ELSE NoType

MappingType_encodingType(t) == uint256

\* the virtual encodingType of t
encodingType(t) ==
    CASE t.cat = "Contract" -> ContractType_encodingType(t)
      [] t.cat = "Array" -> ArrayType_encodingType(t)
      [] t.cat = "Struct" -> StructType_encodingType(t)
      [] t.cat = "Enum" -> EnumType_encodingType(t)
      [] t.cat = "Function" -> FunctionType_encodingType(t)
      [] t.cat = "Mapping" -> MappingType_encodingType(t)
      [] OTHER -> Type_encodingType(t)

\* Type::interfaceType and the overrides of the header (the pointer of the
\* TypeResult; NoType for an error): a value type and a struct are their own
\* interface type, a contract and an enum are outside a library their
\* encoding type, a mapping has an interface type in a library only
Type_interfaceType(t, inLibrary) ==
    CASE t.cat \in {"Address", "Bool", "Integer", "VarInteger", "FixedPoint", "FixedBytes",
                    "Optional", "UserDefinedValueType", "Struct"} -> t
      [] t.cat \in {"Contract", "Enum"} -> IF inLibrary THEN t ELSE encodingType(t)
      [] t.cat = "Mapping" -> IF inLibrary THEN t ELSE NoType
      [] OTHER -> NoType

\* the value ArrayType::interfaceType computes; TypeProvider::array builds
\* an ordinary array over the given base type
ArrayType_interfaceType(t, inLibrary) ==
    With(interfaceType(t.baseType, FALSE), LAMBDA baseInterfaceType :
         IF ~IsType(baseInterfaceType) THEN baseInterfaceType
         ELSE IF t.arrayKind # "Ordinary" THEN withLocation(t, TRUE)
         ELSE IF t.dyn THEN ArrayT("Ordinary", baseInterfaceType, TRUE, 0, TRUE)
         ELSE ArrayT("Ordinary", baseInterfaceType, FALSE, t.length, TRUE))

FunctionType_interfaceType(t, inLibrary) == t

\* the virtual interfaceType of t
interfaceType(t, inLibrary) ==
    CASE t.cat = "Array" -> ArrayType_interfaceType(t, inLibrary)
      [] t.cat = "Function" -> FunctionType_interfaceType(t, inLibrary)
      [] OTHER -> Type_interfaceType(t, inLibrary)

\* the while loop of Type::fullEncodingType looking at the first array level
\* only
fullEncodingLoop_firstLevel(baseType, encoderV2) ==
    IF baseType.cat = "Array"
    THEN IF ~encoderV2 /\ baseType.baseType.cat = "Array" /\ baseType.baseType.dyn
         THEN <<TRUE, baseType.baseType>>
         ELSE <<FALSE, baseType.baseType>>
    ELSE <<FALSE, baseType>>

RECURSIVE fullEncodingLoop(_, _)
\* the while loop of Type::fullEncodingType: <<TRUE, _>> when it returns
\* nullptr, else <<FALSE, the base type it ends on>>
fullEncodingLoop(baseType, encoderV2) ==
    IF baseType.cat = "Array"
    THEN IF ~encoderV2 /\ baseType.baseType.cat = "Array" /\ baseType.baseType.dyn
         THEN <<TRUE, baseType.baseType>>
         ELSE fullEncodingLoop(baseType.baseType, encoderV2)
    ELSE <<FALSE, baseType>>

\* Type::fullEncodingType
fullEncodingType(t, inLibraryCall, encoderV2) ==
    With(mobileType(t), LAMBDA mobile :
    With(IF IsType(mobile) THEN interfaceType(mobile, inLibraryCall) ELSE mobile,
         LAMBDA interface :
    With(IF IsType(interface) THEN encodingType(interface) ELSE interface,
         LAMBDA encoding :
    With(fullEncodingLoop(encoding, encoderV2), LAMBDA loop :
         IF loop[1] THEN NoType
         ELSE IF ~encoderV2 /\ loop[2].cat = "Struct" THEN NoType
         ELSE encoding))))

\* ------------------------------------------------------------------------
\* boundFunctions
\* A function definition is [id, name, parameterTypes, isOrdinary,
\* isVisibleAsLibraryMember]; a path of a using-for directive is a library
\* (kind "library", its definedFunctions) or a function (kind "function",
\* the function and the last identifier of the path); a directive is
\* [typeName (NoType for *), global, functionsOrLibrary]
\* ------------------------------------------------------------------------
\* FunctionType::selfType of a bound function: its first parameter
selfType(t) == t.parameterTypes[1]

\* TypeProvider::withLocationIfReference
withLocationIfReference(t, isPointer) ==
    IF t.cat \in {"Array", "Struct"} THEN withLocation(t, isPointer) ELSE t

\* typeDefinition(): a struct, an enum and a user-defined value type have a
\* defining declaration, other types have none
hasTypeDefinition(t) == t.cat \in {"Struct", "Enum", "UserDefinedValueType"}

\* the lambda addFunction of Type::boundFunctions adding every convertible
\* function
addFunction_noSeen(acc, type, function, name) ==
    IF isImplicitlyConvertibleTo(type, selfType(function))
    THEN [members |-> Append(acc.members, [declaration |-> function, name |-> name]),
          seenFunctions |-> acc.seenFunctions \cup {<<name, function.id>>}]
    ELSE acc

\* the lambda addFunction of Type::boundFunctions; acc holds members and
\* seenFunctions
addFunction(acc, type, function, name) ==
    IF isImplicitlyConvertibleTo(type, selfType(function))
    THEN IF <<name, function.id>> \notin acc.seenFunctions
         THEN [members |-> Append(acc.members, [declaration |-> function, name |-> name]),
               seenFunctions |-> acc.seenFunctions \cup {<<name, function.id>>}]
         ELSE acc
    ELSE acc

RECURSIVE addLibraryFunctions(_, _, _)
\* the loop over library->definedFunctions()
addLibraryFunctions(acc, type, functions) ==
    IF Len(functions) = 0 THEN acc
    ELSE LET function == Head(functions) IN
         addLibraryFunctions(
            IF \/ ~function.isOrdinary
               \/ ~function.isVisibleAsLibraryMember
               \/ Len(function.parameterTypes) = 0
            THEN acc
            ELSE addFunction(acc, type, function, function.name),
            type, Tail(functions))

RECURSIVE addPaths(_, _, _)
\* the loop over ufd->functionsOrLibrary()
addPaths(acc, type, paths) ==
    IF Len(paths) = 0 THEN acc
    ELSE LET pathPointer == Head(paths) IN
         addPaths(
            IF pathPointer.kind = "library"
            THEN addLibraryFunctions(acc, type, pathPointer.definedFunctions)
            ELSE addFunction(acc, type, pathPointer.function, pathPointer.name),
            type, Tail(paths))

RECURSIVE addDirectives(_, _, _)
\* the loop over usingForDirectives
addDirectives(acc, type, usingForDirectives) ==
    IF Len(usingForDirectives) = 0 THEN acc
    ELSE LET ufd == Head(usingForDirectives) IN
         addDirectives(
            IF /\ IsType(ufd.typeName)
               /\ ~TypeEq(withLocationIfReference(type, TRUE),
                          withLocationIfReference(ufd.typeName, TRUE))
            THEN acc
            ELSE addPaths(acc, type, ufd.functionsOrLibrary),
            type, Tail(usingForDirectives))

\* the directives Type::boundFunctions collects: those of the contract, those
\* of its source unit, and the global ones with a type name of the source
\* unit that defines the type
collectDirectives(type, scope) ==
    (IF scope.kind = "ContractDefinition" THEN scope.usingForDirectives ELSE <<>>)
    \o scope.nodes
    \o (IF hasTypeDefinition(type)
        THEN SelectSeq(scope.typeNodes,
                       LAMBDA usingFor : usingFor.global /\ IsType(usingFor.typeName))
        ELSE <<>>)

\* Type::boundFunctions(_type, _scope)
boundFunctions(type, scope) ==
    addDirectives([members |-> <<>>, seenFunctions |-> {}], type,
                  collectDirectives(type, scope)).members

\* ------------------------------------------------------------------------
\* richIdentifier
\* ------------------------------------------------------------------------
\* the four decimal digits of n < 10000
FourDigits(n) ==
    (IF n < 10 THEN "000" ELSE IF n < 100 THEN "00" ELSE IF n < 1000 THEN "0" ELSE "")
    \o ToString(n)

RECURSIVE MagStr(_)
\* bigint::str(): the decimal digits
MagStr(a) ==
    IF Len(a) = 0 THEN "0"
    ELSE IF Len(a) = 1 /\ a[1] < 10000 THEN ToString(a[1])
    ELSE With(MagDivModSmallFrom(a, 10000, Len(a), 0, <<>>), LAMBDA qr :
              MagStr(qr.quot) \o FourDigits(qr.rem))

RECURSIVE richIdentifier(_)

parenthesizeIdentifier(internal) == "(" \o internal \o ")"

\* the free function richIdentifier(Type const*): "" for a null pointer
richIdentifierOrEmpty(t) == IF IsType(t) THEN richIdentifier(t) ELSE ""

RECURSIVE JoinIdentifiers(_)
\* boost::algorithm::join(list | transform(richIdentifier), ",")
JoinIdentifiers(list) ==
    IF Len(list) = 0 THEN ""
    ELSE IF Len(list) = 1 THEN richIdentifierOrEmpty(list[1])
    ELSE richIdentifierOrEmpty(list[1]) \o "," \o JoinIdentifiers(Tail(list))

identifierList(list) == parenthesizeIdentifier(JoinIdentifiers(list))

identifierLocationSuffix(t) == IF t.isPointer THEN "_ptr" ELSE ""

RECURSIVE HexOfBytes(_)
\* toHex(keccak256(value)): the hash is kept as an injective tag of the bytes
HexOfBytes(str) ==
    IF Len(str) = 0 THEN "" ELSE "x" \o ToString(str[1]) \o HexOfBytes(Tail(str))

RationalNumberType_richIdentifier(t) ==
    IF t.value.neg /\ Len(t.value.num) > 0
    THEN "t_rational_minus_" \o MagStr(t.value.num) \o "_by_" \o MagStr(t.value.den)
    ELSE "t_rational_" \o MagStr(t.value.num) \o "_by_" \o MagStr(t.value.den)

ArrayType_richIdentifier(t) ==
    (IF isString(t) THEN "t_string"
     ELSE IF isByteArrayOrString(t) THEN "t_bytes"
     ELSE "t_array" \o identifierList(<<t.baseType>>)
          \o (IF t.dyn THEN "dyn" ELSE ToString(t.length)))
    \o identifierLocationSuffix(t)

\* the switch of FunctionType::richIdentifier, for the kinds of the model
FunctionKindString(kind) ==
    CASE kind = "Internal" -> "internal"
      [] kind = "External" -> "external"
      [] kind = "OptionalGet" -> "optionalmethod"
      [] kind = "OptionalSet" -> "optionalmethod"


FunctionType_richIdentifier(t) ==
    "t_function_" \o FunctionKindString(t.kind) \o "_" \o t.stateMutability
    \o identifierList(t.parameterTypes) \o "returns"
    \o identifierList(t.returnParameterTypes)
    \o (IF t.bound THEN "bound_to" \o identifierList(<<selfType(t)>>) ELSE "")

MagicType_richIdentifier(t) ==
    CASE t.kind = "Block" -> "t_magic_block"
      [] t.kind = "Message" -> "t_magic_message"
      [] t.kind = "MetaType" -> "t_magic_meta_type_" \o richIdentifier(t.typeArgument)

richIdentifier(t) ==
    CASE t.cat = "Address" -> "t_address"
      [] t.cat = "Integer" ->
            "t_" \o (IF t.signed THEN "" ELSE "u") \o "int" \o ToString(t.bits)
      [] t.cat = "FixedPoint" ->
            "t_" \o (IF t.signed THEN "" ELSE "u") \o "fixed" \o ToString(t.totalBits)
            \o "x" \o ToString(t.fractionalDigits)
      [] t.cat = "RationalNumber" -> RationalNumberType_richIdentifier(t)
      [] t.cat = "StringLiteral" -> "t_stringliteral_" \o HexOfBytes(t.str)
      [] t.cat = "FixedBytes" -> "t_bytes" \o ToString(t.numBytes)
      [] t.cat = "Array" -> ArrayType_richIdentifier(t)
      [] t.cat = "ArraySlice" -> ArrayType_richIdentifier(t.arrayType) \o "_slice"
      [] t.cat = "Contract" ->
            (IF t.super THEN "t_super" ELSE "t_contract")
            \o parenthesizeIdentifier(DeclName(t.decl)) \o ToString(t.decl)
      [] t.cat = "Struct" ->
            "t_struct" \o parenthesizeIdentifier(DeclName(t.decl)) \o ToString(t.decl)
            \o identifierLocationSuffix(t)
      [] t.cat = "Enum" ->
            "t_enum" \o parenthesizeIdentifier(DeclName(t.decl)) \o ToString(t.decl)
      [] t.cat = "UserDefinedValueType" ->
            "t_userDefinedValueType" \o parenthesizeIdentifier(DeclName(t.decl))
            \o ToString(t.decl)
      [] t.cat = "Tuple" -> "t_tuple" \o identifierList(t.components)
      [] t.cat = "Function" -> FunctionType_richIdentifier(t)
      [] t.cat = "Mapping" -> "t_mapping" \o identifierList(<<t.keyType, t.valueType>>)
      [] t.cat = "Optional" -> "t_optional_" \o richIdentifier(t.valueType)
      [] t.cat = "Null" -> "null"
      [] t.cat = "EmptyMap" -> "emptyMap"
      [] t.cat = "TypeType" -> "t_type" \o identifierList(<<t.actualType>>)
      [] t.cat = "Modifier" -> "t_modifier" \o identifierList(t.parameterTypes)
      [] t.cat = "Module" -> "t_module_" \o ToString(t.decl)
      [] t.cat = "Magic" -> MagicType_richIdentifier(t)

\* ------------------------------------------------------------------------
\* Storage footprints and StorageOffsets::computeOffsets
\* ------------------------------------------------------------------------
\* Type::canBeStored: true unless the type overrides it
canBeStored(t) ==
    t.cat \notin {"RationalNumber", "StringLiteral", "Tuple", "TypeType", "Modifier",
                  "Module", "Magic"}

\* storageBytes: 32 unless the type overrides it
storageBytes(t) ==
    CASE t.cat = "Integer" -> t.bits \div 8
      [] t.cat = "Bool" -> 1
      [] t.cat = "FixedBytes" -> t.numBytes
      [] t.cat = "Enum" -> 1
      [] t.cat = "Function" -> IF t.kind = "External" THEN 20 + 4 ELSE 8
      [] OTHER -> 32

RECURSIVE storageSize(_)
ArrayType_storageSize(t) ==
    IF t.dyn THEN 1
    ELSE LET baseBytes == storageBytes(t.baseType)
             size == IF baseBytes = 0 THEN 1
                     ELSE IF baseBytes < 32
                     THEN (t.length + ((32 \div baseBytes) - 1)) \div (32 \div baseBytes)
                     ELSE t.length * storageSize(t.baseType)
         IN Max(1, size)

\* storageSize: 1 unless the type overrides it
storageSize(t) == IF t.cat = "Array" THEN ArrayType_storageSize(t) ELSE 1

\* one iteration of computeOffsets' loop without the move to the next slot
OffsetsStep_noNextSlot(type, i, st) ==
    IF ~canBeStored(type) THEN st
    ELSE LET rec == [st EXCEPT !.offsets = @ @@ (i :> <<st.slotOffset, st.byteOffset>>)]
         IN IF storageSize(type) = 1 /\ st.byteOffset + storageBytes(type) <= 32
            THEN [rec EXCEPT !.byteOffset = @ + storageBytes(type)]
            ELSE [rec EXCEPT !.slotOffset = @ + storageSize(type), !.byteOffset = 0]

\* one iteration of computeOffsets' loop, for _types[i]
OffsetsStep(type, i, st) ==
    IF ~canBeStored(type) THEN st
    ELSE LET moved == IF st.byteOffset + storageBytes(type) > 32
                      THEN [st EXCEPT !.slotOffset = @ + 1, !.byteOffset = 0]
                      ELSE st
             rec == [moved EXCEPT
                       !.offsets = @ @@ (i :> <<moved.slotOffset, moved.byteOffset>>)]
         IN IF storageSize(type) = 1 /\ moved.byteOffset + storageBytes(type) <= 32
            THEN [rec EXCEPT !.byteOffset = @ + storageBytes(type)]
            ELSE [rec EXCEPT !.slotOffset = @ + storageSize(type), !.byteOffset = 0]

RECURSIVE OffsetsLoop(_, _, _)
\* the for loop of computeOffsets over fields i..size (fields are numbered
\* from 1 here, from 0 in the code)
OffsetsLoop(fieldTypes, i, st) ==
    IF i > Len(fieldTypes) THEN st
    ELSE OffsetsLoop(fieldTypes, i + 1, OffsetsStep(fieldTypes[i], i, st))

\* computeOffsets without the rounding up of a partly used last slot
computeOffsets_noRoundUp(fieldTypes) ==
    LET st == OffsetsLoop(fieldTypes, 1,
                          [slotOffset |-> 0, byteOffset |-> 0, offsets |-> <<>>])
    IN [m_offsets |-> st.offsets, m_storageSize |-> st.slotOffset]

\* StorageOffsets::computeOffsets: the new m_offsets and m_storageSize
computeOffsets(fieldTypes) ==
    LET st == OffsetsLoop(fieldTypes, 1,
                          [slotOffset |-> 0, byteOffset |-> 0, offsets |-> <<>>])
    IN [m_offsets |-> st.offsets,
        m_storageSize |-> IF st.byteOffset > 0 THEN st.slotOffset + 1 ELSE st.slotOffset]

\* StorageOffsets::offset: the pair recorded for an index, or none
offset(offsets, index) ==
    IF index \in DOMAIN offsets THEN offsets[index] ELSE <<>>

\* ------------------------------------------------------------------------
\* The types and declarations of the analysed program
\* ------------------------------------------------------------------------
uint8Array == ArrayT("Ordinary", uint8, TRUE, 0, TRUE)
uint8Array3 == ArrayT("Ordinary", uint8, FALSE, 3, TRUE)
uint8Array5 == ArrayT("Ordinary", uint8, FALSE, 5, TRUE)

ValueTypes ==
    {AddressT, BoolT, uint8, uint16, IntegerT(120, FALSE), uint256,
     int8, IntegerT(16, TRUE), IntegerT(256, TRUE),
     VarIntegerT(16, FALSE), VarIntegerT(16, TRUE), VarIntegerT(32, FALSE),
     FixedPointT(8, 1, FALSE), FixedPointT(16, 1, FALSE), FixedPointT(128, 18, TRUE),
     FixedBytesT(1), FixedBytesT(2), FixedBytesT(32),
     ContractT(1, FALSE), ContractT(2, FALSE), ContractT(1, TRUE),
     EnumT(5), UserDefinedValueT(7)}

LiteralTypes ==
    {RationalT(RatOfInt(0), 0), RationalT(RatOfInt(1), 0), RationalT(RatOfInt(255), 1),
     RationalT(RatOfInt(256), 0), RationalT(RatOfInt(-1), 0), RationalT(RatOfInt(-128), 0),
     RationalT(Rat(FALSE, <<3>>, <<2>>), 0), RationalT(Rat(TRUE, <<3>>, <<2>>), 0),
     RationalT(RatOfMag(Pow2(256)), 0),
     StringLiteralT(<<>>), StringLiteralT(<<97>>), StringLiteralT(<<97, 98>>),
     StringLiteralT(<<255>>)}

ReferenceTypes ==
    {bytesMemory, stringMemory, ArrayT("Bytes", FixedBytesT(1), TRUE, 0, FALSE),
     uint8Array, uint8Array3, uint8Array5,
     ArrayT("Ordinary", uint16, FALSE, 3, TRUE),
     ArrayT("Ordinary", uint8Array3, TRUE, 0, TRUE),
     ArrayT("Ordinary", uint8Array, FALSE, 3, TRUE),
     ArrayT("Ordinary", ArrayT("Ordinary", uint8Array, FALSE, 3, TRUE), FALSE, 3, TRUE),
     ArrayT("Ordinary", StructT(3, TRUE), TRUE, 0, TRUE),
     ArrayT("Ordinary", ContractT(1, FALSE), FALSE, 3, FALSE),
     ArraySliceT(uint8Array),
     StructT(3, TRUE), StructT(3, FALSE), StructT(4, TRUE),
     MappingT(uint8, uint8), MappingT(uint8, uint16)}

\* no tuple with an absent component has the length of another tuple
CompositeTypes ==
    {OptionalT(uint8), OptionalT(uint16), OptionalT(OptionalT(uint8)),
     OptionalT(stringMemory), NullT, EmptyMapT,
     emptyTuple, TupleT(<<NoType>>), TupleT(<<uint8, uint16>>), TupleT(<<uint16, uint16>>),
     TupleT(<<RationalT(RatOfInt(1), 0), RationalT(RatOfInt(256), 0)>>),
     FunctionT("Internal", "pure", <<>>, <<>>, FALSE),
     FunctionT("Internal", "view", <<>>, <<>>, FALSE),
     FunctionT("External", "pure", <<>>, <<>>, FALSE),
     FunctionT("Internal", "pure", <<uint8>>, <<>>, FALSE),
     FunctionT("Internal", "pure", <<uint8>>, <<>>, TRUE),
     FunctionT("Internal", "pure", <<>>, <<uint8>>, FALSE),
     FunctionT("OptionalGet", "pure", <<>>, <<>>, FALSE),
     FunctionT("OptionalSet", "pure", <<>>, <<>>, FALSE),
     TypeTypeT(uint8), ModifierT(<<>>), ModifierT(<<uint8>>), ModuleT(8),
     MagicT("Block", NoType), MagicT("Message", NoType), MagicT("MetaType", uint8),
     MagicT("MetaType", uint16)}

TypeUniverse == ValueTypes \cup LiteralTypes \cup ReferenceTypes \cup CompositeTypes

\* ========================================================================
\* State machine: a caller holds two type pointers and invokes one of the
\* type-system operations on them
\* ========================================================================
VARIABLES pc, a, b, token, ret, types, m_offsets, m_storageSize,
          m_members, memberLists, m_stackItems, m_stackSize,
          m_interfaceType, m_interfaceType_library, epoch, computed,
          g_compilerStackCounts, g_errorReporter, instances, typeProvider,
          currentScope, m_size, lines, position, cells, stack,
          m_sources, sourcesToParse, m_sourceOrder, m_requestedContractNames,
          readCalls

vars == <<pc, a, b, token, ret, types, m_offsets, m_storageSize,
          m_members, memberLists, m_stackItems, m_stackSize,
          m_interfaceType, m_interfaceType_library, epoch, computed,
          g_compilerStackCounts, g_errorReporter, instances, typeProvider,
          currentScope, m_size, lines>>

\* the operands and result of a call on types
callVars == <<a, b, token, ret>>
\* a StorageOffsets object and the field list handed to it
layoutVars == <<types, m_offsets, m_storageSize>>
\* the caches of one Type object and the MemberList objects it has built;
\* epoch counts its clearCache calls and computed counts the computations
\* made since the last one
cacheVars == <<m_members, memberLists, m_stackItems, m_stackSize,
               m_interfaceType, m_interfaceType_library, epoch, computed>>
\* the CompilerStack objects alive, their guard counter, the instance whose
\* error reporter GlobalParams points to (0 for none) and the types the
\* TypeProvider singleton has interned
compilerVars == <<g_compilerStackCounts, g_errorReporter, instances, typeProvider>>
\* currentScope: the scope whose using-for directives bind functions
\* the tracked size of a TVMStack and the lines of the CodeLines it is
\* paired with
pusherVars == <<m_size, lines>>
\* position: the EncodePosition of a message being encoded; cells: what
\* the emitted instructions have stored in each builder, first cell first
encoderVars == <<position, cells>>
\* stack: the fields of a CompilerStack that its state machine reads and
\* writes
\* m_sources, m_sourceOrder and m_requestedContractNames of the
\* CompilerStack; sourcesToParse: the local list of parse() and how many of
\* its paths have been parsed; readCalls: the calls of m_readFile so far
importVars ==
    <<m_sources, sourcesToParse, m_sourceOrder, m_requestedContractNames, readCalls>>
stackVars == <<stack, importVars>>
driverVars == <<pusherVars, encoderVars, stackVars>>
objectVars == <<cacheVars, compilerVars, currentScope, driverVars>>

NoCall == a = NoType /\ b = NoType /\ token = "None" /\ ret = NoType
NoLayout == types = <<>> /\ m_offsets = <<>> /\ m_storageSize = 0

\* the scopes Type::members accepts: no scope, a source unit, a contract
Scopes == {"nullptr", "SourceUnit", "ContractDefinition"}
\* an empty std::optional or LazyInit, a null unique_ptr
Empty == [epoch |-> -1]

NoCache ==
    /\ m_members = [s \in Scopes |-> 0]
    /\ memberLists = <<>>
    /\ m_stackItems = Empty
    /\ m_stackSize = Empty
    /\ m_interfaceType = Empty
    /\ m_interfaceType_library = Empty
    /\ epoch = 0
    /\ computed = [nativeMembers |-> [s \in Scopes |-> 0],
                   boundFunctions |-> [s \in Scopes |-> 0],
                   interfaceType |-> [l \in BOOLEAN |-> 0]]
NoCompiler ==
    /\ g_compilerStackCounts = 0
    /\ g_errorReporter = 0
    /\ instances = {}
    /\ typeProvider = {}
NoScope == [kind |-> "nullptr"]
NoPusher == m_size = 0 /\ lines = <<>>
NoEncoder == position = Empty /\ cells = <<>>
NoImports ==
    /\ m_sources = <<>> /\ sourcesToParse = <<>> /\ m_sourceOrder = <<>>
    /\ m_requestedContractNames = {} /\ readCalls = <<>>
NoStack == stack = Empty /\ NoImports
NoDriver == NoPusher /\ NoEncoder /\ NoStack
NoObjects == NoCache /\ NoCompiler /\ currentScope = NoScope /\ NoDriver

\* types whose richIdentifier is defined in Types.cpp
IdentTypes == {t \in TypeUniverse : t.cat \notin {"Bool", "VarInteger"}}

InitConv ==
    /\ pc = "start"
    /\ a \in TypeUniverse \cup {NoType}
    /\ b \in TypeUniverse \cup {NoType}
    /\ token = "None"
    /\ ret = NoType
    /\ NoLayout
    /\ NoObjects

\* a.isImplicitlyConvertibleTo(b)
isImplicitlyConvertibleToCall ==
    /\ pc = "start"
    /\ IsType(a) /\ IsType(b)
    /\ ret' = isImplicitlyConvertibleTo(a, b)
    /\ pc' = "isImplicitlyConvertibleTo"
    /\ UNCHANGED <<a, b, token, layoutVars, objectVars>>

\* Type::commonType(a, b)
commonTypeCall ==
    /\ pc = "start"
    /\ ret' = commonType(a, b)
    /\ pc' = "commonType"
    /\ UNCHANGED <<a, b, token, layoutVars, objectVars>>

\* a.richIdentifier() and b.richIdentifier()
richIdentifierCall ==
    /\ pc = "start"
    /\ a \in IdentTypes /\ b \in IdentTypes
    /\ ret' = <<richIdentifier(a), richIdentifier(b)>>
    /\ pc' = "richIdentifier"
    /\ UNCHANGED <<a, b, token, layoutVars, objectVars>>

\* a.isImplicitlyConvertibleTo(b) and a.isImplicitlyConvertibleTo(optional(b))
convertibleToOptionalCall ==
    /\ pc = "start"
    /\ IsType(a) /\ IsType(b)
    /\ ret' = <<isImplicitlyConvertibleTo(a, b), isImplicitlyConvertibleTo(a, OptionalT(b))>>
    /\ pc' = "convertibleToOptional"
    /\ UNCHANGED <<a, b, token, layoutVars, objectVars>>

\* the caller asks both conversion questions about the same pair
isExplicitlyConvertibleToCall ==
    /\ pc = "start"
    /\ IsType(a) /\ IsType(b)
    /\ ret' = <<isImplicitlyConvertibleTo(a, b), isExplicitlyConvertibleTo(a, b)>>
    /\ pc' = "isExplicitlyConvertibleTo"
    /\ UNCHANGED <<a, b, token, layoutVars, objectVars>>

\* a.fullEncodingType(inLibraryCall, encoderV2) for both values of encoderV2
fullEncodingTypeCall ==
    /\ pc = "start"
    /\ IsType(a)
    /\ \E inLibraryCall \in BOOLEAN :
          ret' = [inLibraryCall |-> inLibraryCall,
                  v1 |-> fullEncodingType(a, inLibraryCall, FALSE),
                  v2 |-> fullEncodingType(a, inLibraryCall, TRUE)]
    /\ pc' = "fullEncodingType"
    /\ UNCHANGED <<a, b, token, layoutVars, objectVars>>

\* a == b, b == a and the rich identifiers of both
operatorEqCall ==
    /\ pc = "start"
    /\ a \in IdentTypes /\ b \in IdentTypes
    /\ ret' = [ab |-> TypeEq(a, b), ba |-> TypeEq(b, a),
               identifiers |-> <<richIdentifier(a), richIdentifier(b)>>]
    /\ pc' = "operator=="
    /\ UNCHANGED <<a, b, token, layoutVars, objectVars>>

NextConv ==
    \/ isImplicitlyConvertibleToCall
    \/ commonTypeCall
    \/ richIdentifierCall
    \/ convertibleToOptionalCall
    \/ isExplicitlyConvertibleToCall
    \/ fullEncodingTypeCall
    \/ operatorEqCall

SpecConv == InitConv /\ [][NextConv]_vars

\* ------------------------------------------------------------------------
\* Properties of implicit conversion and of the common type
\* ------------------------------------------------------------------------

\* C1: for every constructible type T, T.isImplicitlyConvertibleTo(T) returns
\* true.
C1_IdentityConversion ==
    (pc = "isImplicitlyConvertibleTo" /\ a = b) => ret = TRUE

\* C2: whenever commonType(A, B) returns a type, commonType(B, A) returns an
\* equal type.
C2_CommonTypeSymmetric ==
    (pc = "commonType" /\ IsType(ret)) =>
        (IsType(commonType(b, a)) /\ TypeEq(commonType(b, a), ret))

\* the type commonType is specified to return: A's mobile type if B converts to
\* it, else B's mobile type if A converts to it, else none; none if A or B is
\* absent
CommonTypeBySteps(A, B) ==
    IF ~IsType(A) \/ ~IsType(B) THEN NoType
    ELSE LET mA == mobileType(A)
             mB == mobileType(B)
         IN CASE IsType(mA) /\ isImplicitlyConvertibleTo(B, mA) -> mA
              [] ~(IsType(mA) /\ isImplicitlyConvertibleTo(B, mA))
                 /\ IsType(mB) /\ isImplicitlyConvertibleTo(A, mB) -> mB
              [] OTHER -> NoType

\* C3: commonType(A, B) is A.mobileType() if that exists and B converts to it,
\* otherwise B.mobileType() if that exists and A converts to it, otherwise
\* none, and none whenever A or B is absent.
C3_CommonTypeAlgorithm ==
    pc = "commonType" => ret = CommonTypeBySteps(a, b)

\* C3 witness: the second step decides, the result is B's mobile type and not
\* A's.
C3_SecondStepTaken ==
    /\ pc = "commonType"
    /\ IsType(a) /\ IsType(b) /\ IsType(ret)
    /\ ~isImplicitlyConvertibleTo(b, mobileType(a))
    /\ ret = mobileType(b)
    /\ ret # mobileType(a)

SameElementType(x, y) ==
    LET u == UnwrapArrays(x.baseType, y.baseType) IN TypeEq(u[1], u[2])

\* C4: for non-byte arrays of the same unwrapped element type, T[n] converts
\* to T[], T[] converts to no T[n], and T[n] converts to T[m] only when n = m.
C4_ArrayLengthRespected ==
    (/\ pc = "isImplicitlyConvertibleTo"
     /\ a.cat = "Array" /\ b.cat = "Array"
     /\ ~isByteArrayOrString(a) /\ ~isByteArrayOrString(b)
     /\ SameElementType(a, b)) =>
        /\ (~a.dyn /\ b.dyn) => ret
        /\ (a.dyn /\ ~b.dyn) => ~ret
        /\ (~a.dyn /\ ~b.dyn /\ ret) => a.length = b.length

C12_ConvertibleToOptional ==
    (pc = "convertibleToOptional" /\ ret[1]) => ret[2]

\* C13: explicit convertibility only widens implicit convertibility: for all
\* types A and B, if A.isImplicitlyConvertibleTo(B) holds then
\* A.isExplicitlyConvertibleTo(B) holds, targets that are Optional or internal
\* function types included.
C13_ExplicitWidensImplicit ==
    (pc = "isExplicitlyConvertibleTo" /\ ret[1]) => ret[2]

\* C27: structural equality is consistent with the interning key: for two
\* types A and B with A == B (Magic meta-types with different type arguments
\* and tuples with empty components included), B == A holds and
\* A.richIdentifier() equals B.richIdentifier().
C27_EqualityMatchesIdentifier ==
    (pc = "operator==" /\ ret.ab) =>
        ret.ba /\ ret.identifiers[1] = ret.identifiers[2]

\* the three stages of the encoding type: mobile, interface, encoding
StagedEncodingType(t, inLibraryCall) ==
    IF ~IsType(mobileType(t)) THEN NoType
    ELSE IF ~IsType(interfaceType(mobileType(t), inLibraryCall)) THEN NoType
    ELSE encodingType(interfaceType(mobileType(t), inLibraryCall))

RECURSIVE HasDynamicBase(_)
\* t is an array with a dynamically sized array as base type at some depth
HasDynamicBase(t) ==
    /\ t.cat = "Array"
    /\ \/ (t.baseType.cat = "Array" /\ t.baseType.dyn)
       \/ HasDynamicBase(t.baseType)

RECURSIVE InnermostBase(_)
InnermostBase(t) == IF t.cat = "Array" THEN InnermostBase(t.baseType) ELSE t

DerivesFrom(c, base) ==
    \E i \in 1..Len(linearizedBaseContracts(c)) : linearizedBaseContracts(c)[i] = base

\* C14 (as stated): a contract type is implicitly convertible to a contract
\* type only if both name the same declaration or the source contract derives
\* from the target contract, and every contract type is implicitly
\* convertible to the address type.
C14_ContractConversion ==
    (pc = "isImplicitlyConvertibleTo" /\ a.cat = "Contract") =>
        /\ (b.cat = "Contract" /\ ret) => (a.decl = b.decl \/ DerivesFrom(a.decl, b.decl))
        /\ b.cat = "Address" => ret

\* C14 (amended): a contract type is implicitly convertible to a contract
\* type only if both name the same declaration or the source derives from the
\* target; a contract type is implicitly convertible to the address type
\* exactly when it is not the pseudo-type of super.
C14_ContractConversionExceptSuper ==
    (pc = "isImplicitlyConvertibleTo" /\ a.cat = "Contract") =>
        /\ (b.cat = "Contract" /\ ret) => (a.decl = b.decl \/ DerivesFrom(a.decl, b.decl))
        /\ b.cat = "Address" => (ret <=> ~a.super)

\* C14 witness: the type of super has been asked for a conversion to address
\* and refused it
C14_SuperToAddressRefused ==
    /\ pc = "isImplicitlyConvertibleTo"
    /\ a.cat = "Contract" /\ a.super
    /\ b.cat = "Address"
    /\ ret = FALSE

\* ========================================================================
\* State machine: a StorageOffsets object is handed a field list
\* ========================================================================
FieldTypes ==
    {uint8, uint16, uint256, BoolT, FixedBytesT(1),
     FunctionT("External", "pure", <<>>, <<>>, FALSE),
     ArrayT("Ordinary", uint256, FALSE, 2, FALSE), emptyTuple}

InitLayout ==
    /\ pc = "start"
    /\ types \in UNION {[1..n -> FieldTypes] : n \in 0..MaxFields}
    /\ m_offsets = <<>>
    /\ m_storageSize = 0
    /\ NoCall
    /\ NoObjects

\* StorageOffsets::computeOffsets(types)
computeOffsetsCall ==
    /\ pc = "start"
    /\ m_offsets' = computeOffsets(types).m_offsets
    /\ m_storageSize' = computeOffsets(types).m_storageSize
    /\ pc' = "computeOffsets"
    /\ UNCHANGED <<types, callVars, objectVars>>

\* StorageOffsets::offset(index) on the computed offsets
offsetCall ==
    /\ pc = "computeOffsets"
    /\ \E index \in 1..(Len(types) + 1) :
          /\ token' = ToString(index)
          /\ ret' = offset(m_offsets, index)
    /\ pc' = "offset"
    /\ UNCHANGED <<a, b, layoutVars, objectVars>>

NextLayout == computeOffsetsCall \/ offsetCall

SpecLayout == InitLayout /\ [][NextLayout]_vars

\* ------------------------------------------------------------------------
\* Properties of the storage layout
\* ------------------------------------------------------------------------
\* the stored field before field i, 0 if there is none
PrevStored(i) ==
    LET before == {j \in DOMAIN m_offsets : j < i}
    IN IF before = {} THEN 0 ELSE CHOOSE j \in before : \A k \in before : k <= j

\* where the packing stands after stored field j: behind it in its slot if it
\* is a one-slot field that fitted, else at the start of the slot after it
PositionAfter(j) ==
    IF j = 0 THEN <<0, 0>>
    ELSE IF storageSize(types[j]) = 1 /\ m_offsets[j][2] + storageBytes(types[j]) <= 32
    THEN <<m_offsets[j][1], m_offsets[j][2] + storageBytes(types[j])>>
    ELSE <<m_offsets[j][1] + storageSize(types[j]), 0>>

\* the greedy rule's offset for stored field i
GreedyOffset(i) ==
    LET at == PositionAfter(PrevStored(i))
    IN IF at[2] + storageBytes(types[i]) > 32 THEN <<at[1] + 1, 0>> ELSE at

\* the greedy rule's slot count: rounded up when the last slot is partly used
GreedySlots ==
    LET at == PositionAfter(PrevStored(Len(types) + 1))
    IN IF at[2] > 0 THEN at[1] + 1 ELSE at[1]

\* C5: computeOffsets assigns exactly the offsets of the greedy packing rule,
\* skips unstorable fields and rounds the slot count up; [uint8, uint8,
\* uint256, bool] gets (0,0),(0,1),(1,0),(2,0) and 3 slots, [uint256, uint256]
\* gets (0,0),(1,0) and 2 slots, [bytes1, uint256, bytes1] gets
\* (0,0),(1,0),(2,0).
C5_GreedyPacking ==
    pc = "computeOffsets" =>
        /\ DOMAIN m_offsets = {i \in 1..Len(types) : canBeStored(types[i])}
        /\ \A i \in DOMAIN m_offsets : m_offsets[i] = GreedyOffset(i)
        /\ m_storageSize = GreedySlots
        /\ types = <<uint8, uint8, uint256, BoolT>> =>
              /\ m_offsets = <<<<0, 0>>, <<0, 1>>, <<1, 0>>, <<2, 0>>>>
              /\ m_storageSize = 3
        /\ types = <<uint256, uint256>> =>
              /\ m_offsets = <<<<0, 0>>, <<1, 0>>>>
              /\ m_storageSize = 2
        /\ types = <<FixedBytesT(1), uint256, FixedBytesT(1)>> =>
              m_offsets = <<<<0, 0>>, <<1, 0>>, <<2, 0>>>>

\* C5 witness: the four-field example has been laid out; its last slot is
\* partly used and counted.
C5_ExampleLaidOut ==
    /\ pc = "computeOffsets"
    /\ types = <<uint8, uint8, uint256, BoolT>>
    /\ m_offsets[4] = <<2, 0>>
    /\ m_storageSize = 3

\* the (slot, byte) cells stored field i occupies
Cells(i) ==
    IF storageSize(types[i]) = 1
    THEN {<<m_offsets[i][1], y>> :
             y \in m_offsets[i][2]..(m_offsets[i][2] + storageBytes(types[i]) - 1)}
    ELSE {<<s, y>> : s \in m_offsets[i][1]..(m_offsets[i][1] + storageSize(types[i]) - 1),
                     y \in 0..31}

\* (slot, byte) pairs in lexicographic order
OffsetBefore(o1, o2) == o1[1] < o2[1] \/ (o1[1] = o2[1] /\ o1[2] < o2[2])

\* C6: when every storable field has storageBytes in 1..32 and storageSize >=
\* 1, each byteOffset is in 0..31, no one-slot field passes byte 32 of its
\* slot, no two stored fields overlap, offsets increase strictly in field
\* order and the storage size exceeds every stored field's slot.
C6_LayoutInvariants ==
    (/\ pc = "computeOffsets"
     /\ \A i \in 1..Len(types) :
           canBeStored(types[i]) =>
              storageBytes(types[i]) \in 1..32 /\ storageSize(types[i]) >= 1) =>
        /\ \A i \in DOMAIN m_offsets : m_offsets[i][2] \in 0..31
        /\ \A i \in DOMAIN m_offsets :
              storageSize(types[i]) = 1 =>
                 m_offsets[i][2] + storageBytes(types[i]) <= 32
        /\ \A i, j \in DOMAIN m_offsets : i # j => Cells(i) \cap Cells(j) = {}
        /\ \A i, j \in DOMAIN m_offsets :
              i < j => OffsetBefore(m_offsets[i], m_offsets[j])
        /\ \A i \in DOMAIN m_offsets : m_storageSize > m_offsets[i][1]

\* C6 witness: a field packed behind another in the same slot, then a field
\* that did not fit and went to the next slot, in a list with a multi-slot
\* field.
C6_PackedAndMoved ==
    /\ pc = "computeOffsets"
    /\ \E i, j \in DOMAIN m_offsets :
          /\ i < j
          /\ m_offsets[i][2] > 0
          /\ m_offsets[j] = <<m_offsets[i][1] + 1, 0>>
          /\ m_offsets[i][2] + storageBytes(types[i]) + storageBytes(types[j]) > 32
    /\ \E k \in DOMAIN m_offsets : storageSize(types[k]) > 1

\* ========================================================================
\* State machine: operations on rational literal types
\* ========================================================================
\* integer literals 2^k - 1, 2^k, 2^k + 1 and their negatives
IntegerLiterals ==
    {RationalT(Rat(neg, MagAdd(MagSub(Pow2(k), <<1>>), MagFromNat(d)), <<1>>), 0) :
        neg \in BOOLEAN, k \in 0..MaxPow2, d \in 0..2}

\* small fractions, and halves around the largest representable values
FractionalLiterals ==
    {t \in {RationalT(Rat(neg, MagFromNat(n), MagFromNat(d)), 0) :
               neg \in BOOLEAN, n \in 1..MaxNumerator, d \in 2..MaxDenominator} :
        isFractional(t)}
    \cup {RationalT(Rat(neg, MagAdd(Pow2(k), <<1>>), <<2>>), 0) :
             neg \in BOOLEAN, k \in {8, 16, 255, 256, 257}}
    \cup {RationalT(Rat(neg, <<1>>, MagPow10(k)), 0) : neg \in BOOLEAN, k \in {1, 18, 81}}

\* powers of two around half the precision limit and around the limit, times
\* 1, 3 or 1/3
PrecisionExponents ==
    {0, 1, PrecisionBits \div 2 - 1, PrecisionBits \div 2, PrecisionBits \div 2 + 1,
     PrecisionBits - 2, PrecisionBits - 1, PrecisionBits}

BigLiterals ==
    {RationalT(Scaled(neg, f[1], f[2], sign * e), 0) :
        neg \in BOOLEAN, f \in {<<<<1>>, <<1>>>>, <<<<3>>, <<1>>>>, <<<<1>>, <<3>>>>},
        sign \in {-1, 1}, e \in PrecisionExponents}
    \cup {RationalT(Scaled(FALSE, <<>>, <<1>>, 0), 0)}

\* whether a literal holds its value with a power-of-two exponent
IsScaled(t) == "exp" \in DOMAIN t.value

InitRational ==
    /\ pc = "start"
    /\ \/ a \in IntegerLiterals \cup FractionalLiterals /\ b = NoType
       \/ a \in BigLiterals /\ b \in BigLiterals \cup {BoolT}
    /\ token = "None"
    /\ ret = NoType
    /\ NoLayout
    /\ NoObjects

\* a.integerType(); the code asserts that a is not fractional
integerTypeCall ==
    /\ pc = "start"
    /\ ~IsScaled(a) /\ ~isFractional(a)
    /\ ret' = integerType(a)
    /\ pc' = "integerType"
    /\ UNCHANGED <<a, b, token, layoutVars, objectVars>>

\* a.fixedPointType()
fixedPointTypeCall ==
    /\ pc = "start"
    /\ ~IsScaled(a) /\ isFractional(a)
    /\ ret' = fixedPointType(a)
    /\ pc' = "fixedPointType"
    /\ UNCHANGED <<a, b, token, layoutVars, objectVars>>

\* a.binaryOperatorResult(operator, b)
binaryOperatorResultCall ==
    /\ pc = "start"
    /\ IsScaled(a)
    /\ \E operator \in {"Mul", "Div"} :
          /\ token' = operator
          /\ ret' = binaryOperatorResult(a, operator, b)
    /\ pc' = "binaryOperatorResult"
    /\ UNCHANGED <<a, b, layoutVars, objectVars>>

\* a.mobileType(), a.isImplicitlyConvertibleTo(that type) and commonType(a, a)
mobileTypeCall ==
    /\ pc = "start"
    /\ ~IsScaled(a)
    /\ ret' = With(mobileType(a), LAMBDA mobile :
                   [mobile |-> mobile,
                    convertible |-> IsType(mobile) /\ isImplicitlyConvertibleTo(a, mobile),
                    common |-> commonType(a, a)])
    /\ pc' = "mobileType"
    /\ UNCHANGED <<a, b, token, layoutVars, objectVars>>

NextRational ==
    \/ integerTypeCall
    \/ fixedPointTypeCall
    \/ binaryOperatorResultCall
    \/ mobileTypeCall

SpecRational == InitRational /\ [][NextRational]_vars

\* ------------------------------------------------------------------------
\* Claims about the rational literals
\* ------------------------------------------------------------------------
\* bits needed to write a magnitude held as mag * 2^shift
BitsNeeded(mag, shift) == IF Len(mag) = 0 THEN 0 ELSE msb(mag) + 1 + shift

\* the exact result of the operation of the state, <<>> when it has none
ExactResult == evaluateBinaryOperator(token, a.value, b.value)

\* C7: a binary operation on two rational literals returns the error
\* "Precision of rational constants is limited to 4096 bits." whenever the
\* numerator or the denominator of the exact result needs more than 4096
\* bits, and a rational-literal type holding the exact result whenever both
\* need at most 4096 bits.
C7_PrecisionCeiling ==
    (pc = "binaryOperatorResult" /\ b.cat = "RationalNumber" /\ Len(ExactResult) # 0) =>
        With(ExactResult[1], LAMBDA value :
             IF \/ BitsNeeded(value.num, Max(value.exp, 0)) > 4096
                \/ BitsNeeded(value.den, Max(-value.exp, 0)) > 4096
             THEN ret = TypeResultErr(
                          "Precision of rational constants is limited to 4096 bits.")
             ELSE ret = TypeResult(RationalT(value, 0)))

\* the value of an integer literal
LiteralValue(t) == Big(t.value.neg, t.value.num)

\* v lies in the range of the integer type of the given width and signedness
InIntegerRange(v, bits, signed) ==
    IF signed
    THEN BigLeq(Big(TRUE, Pow2(bits - 1)), v)
         /\ BigLeq(v, Big(FALSE, MagSub(Pow2(bits - 1), <<1>>)))
    ELSE ~v.neg /\ BigLeq(v, Big(FALSE, MagSub(Pow2(bits), <<1>>)))

ByteWidths == {8 * n : n \in 1..32}

\* C8: for a non-fractional literal v, integerType() is the integer type of
\* the smallest width that is a multiple of 8 bits, signed exactly when
\* v < 0, whose range contains v (255 -> uint8, 256 -> uint16, -128 -> int8,
\* -129 -> int16, 0 -> uint8); it is none exactly when v > 2^256 - 1 or
\* v < -2^255.
C8_SmallestIntegerType ==
    pc = "integerType" =>
        /\ IF \/ BigLess(Big(FALSE, MagSub(Pow2(256), <<1>>)), LiteralValue(a))
              \/ BigLess(LiteralValue(a), Big(TRUE, Pow2(255)))
           THEN ret = NoType
           ELSE /\ ret.cat = "Integer"
                /\ ret.signed = BigLess(LiteralValue(a), BigZero)
                /\ ret.bits \in ByteWidths
                /\ InIntegerRange(LiteralValue(a), ret.bits, ret.signed)
                /\ \A bits \in ByteWidths :
                      bits < ret.bits => ~InIntegerRange(LiteralValue(a), bits, ret.signed)
        /\ a = RationalT(RatOfInt(255), 0) => ret = uint8
        /\ a = RationalT(RatOfInt(256), 0) => ret = uint16
        /\ a = RationalT(RatOfInt(-128), 0) => ret = int8
        /\ a = RationalT(RatOfInt(-129), 0) => ret = IntegerT(16, TRUE)
        /\ a = RationalT(RatOfInt(0), 0) => ret = uint8

\* C8 witness: integerType() has answered uint16 for 256, int16 for -129 or
\* none for 2^256
C8_WidthStepTaken ==
    /\ pc = "integerType"
    /\ \/ a = RationalT(RatOfInt(256), 0) /\ ret = uint16
       \/ a = RationalT(RatOfInt(-129), 0) /\ ret = IntegerT(16, TRUE)
       \/ a = RationalT(RatOfMag(Pow2(256)), 0) /\ ret = NoType

\* |v| * 10^k is numerator ScaledNumerator(v, k) over v.den
ScaledNumerator(v, k) == MagMul(v.num, MagPow10(k))

\* v * 10^k is an integer
ExactAt(v, k) == Len(MagMod(ScaledNumerator(v, k), v.den)) = 0

\* v * 10^k with its fraction cut off
Truncated(v, k) == Big(v.neg, MagDiv(ScaledNumerator(v, k), v.den))

\* C9 as stated: a type returned by fixedPointType() for a fractional
\* literal v has at most 80 fractional digits and at most 256 bits,
\* v * 10^fractionalDigits is an integer within the type's range, and no
\* fixed-point type with fewer fractional digits or fewer bits represents v
\* exactly (1.5 yields 1 fractional digit and 8 bits); when no fixed-point
\* type within those limits represents v exactly the result is none.
C9_ExactOrNone ==
    pc = "fixedPointType" =>
        /\ ret # NoType =>
              /\ ret.cat = "FixedPoint"
              /\ ret.fractionalDigits <= 80 /\ ret.totalBits <= 256
              /\ ExactAt(a.value, ret.fractionalDigits)
              /\ InIntegerRange(Truncated(a.value, ret.fractionalDigits),
                                ret.totalBits, ret.signed)
              /\ \A k \in 0..(ret.fractionalDigits - 1) : ~ExactAt(a.value, k)
              /\ \A bits \in ByteWidths :
                    bits < ret.totalBits =>
                        ~InIntegerRange(Truncated(a.value, ret.fractionalDigits),
                                        bits, ret.signed)
        /\ (~\E k \in 0..80 :
                /\ ExactAt(a.value, k)
                /\ InIntegerRange(Truncated(a.value, k), 256, a.value.neg))
              => ret = NoType
        /\ a = RationalT(Rat(FALSE, <<3>>, <<2>>), 0) => ret = FixedPointT(8, 1, FALSE)

\* the largest magnitude fixedPointType() accepts for a literal of the sign
FixedPointLimit(negative) == IF negative THEN Pow2(255) ELSE MagSub(Pow2(256), <<1>>)

\* |v| * 10^k is above that magnitude
ExceedsAt(v, k) == MagLess(MagMul(FixedPointLimit(v.neg), v.den), ScaledNumerator(v, k))

\* C9 amended: fixedPointType() returns none exactly when |v| is above
\* 2^256 - 1 (2^255 for a negative v).  Otherwise the type is signed exactly
\* when v < 0, its fractionalDigits is the smallest k in 0..80 at which
\* v * 10^k is an integer, or k is 80, or |v| * 10^(k + 1) is above that
\* magnitude, and its width is the smallest multiple of 8 bits whose range
\* contains v * 10^fractionalDigits cut off towards zero (1.5 yields 1
\* fractional digit and 8 bits).
C9_TruncatingFixedPoint ==
    pc = "fixedPointType" =>
        /\ IF ExceedsAt(a.value, 0) THEN ret = NoType
           ELSE /\ ret.cat = "FixedPoint"
                /\ ret.signed = a.value.neg
                /\ ret.fractionalDigits \in 0..80
                /\ ret.totalBits \in ByteWidths
                /\ \A k \in 0..(ret.fractionalDigits - 1) : ~ExactAt(a.value, k)
                /\ ~ExceedsAt(a.value, ret.fractionalDigits)
                /\ \/ ExactAt(a.value, ret.fractionalDigits)
                   \/ ret.fractionalDigits = 80
                   \/ ExceedsAt(a.value, ret.fractionalDigits + 1)
                /\ InIntegerRange(Truncated(a.value, ret.fractionalDigits),
                                  ret.totalBits, ret.signed)
                /\ \A bits \in ByteWidths :
                      bits < ret.totalBits =>
                          ~InIntegerRange(Truncated(a.value, ret.fractionalDigits),
                                          bits, ret.signed)
        /\ a = RationalT(Rat(FALSE, <<3>>, <<2>>), 0) => ret = FixedPointT(8, 1, FALSE)

\* C9 witness: fixedPointType() has answered ufixed256x77 for 1/3, whose
\* multiples by powers of ten are never integers
C9_ThirdCutOff ==
    /\ pc = "fixedPointType"
    /\ a = RationalT(Rat(FALSE, <<1>>, <<3>>), 0)
    /\ ret = FixedPointT(256, 77, FALSE)
    /\ ~ExactAt(a.value, 77)

\* C28: every rational literal L, integer or fractional, positive or
\* negative, whose mobileType() is a type M is implicitly convertible to M,
\* and commonType(L, L) is M.
C28_LiteralConvertsToMobileType ==
    (pc = "mobileType" /\ IsType(ret.mobile)) =>
        ret.convertible /\ ret.common = ret.mobile

\* ========================================================================
\* State machine: Type::escapeIdentifier is applied to two identifiers
\* ========================================================================
\* strings are sequences of characters
RECURSIVE replace_all(_, _, _)
\* boost::algorithm::replace_all for a search string of one character: each
\* occurrence is replaced from left to right, the inserted text is not
\* searched again
replace_all(input, search, format) ==
    IF Len(input) = 0 THEN <<>>
    ELSE (IF Head(input) = search THEN format ELSE <<Head(input)>>)
         \o replace_all(Tail(input), search, format)

\* Type::escapeIdentifier
escapeIdentifier(identifier) ==
    replace_all(
        replace_all(
            replace_all(
                replace_all(identifier, "$", <<"$", "$", "$">>),
                ",", <<"_", "$", "_">>),
            "(", <<"$", "_">>),
        ")", <<"_", "$">>)

MaxIdentifierLen == 2

\* a letter, a digit, and the characters escapeIdentifier treats or emits
IdentifierChars == {"a", "1", "_", "$", "(", ")", ","}

Identifiers ==
    UNION {[1..n -> IdentifierChars] : n \in 0..MaxIdentifierLen}

InitEscape ==
    /\ pc = "start"
    /\ a \in Identifiers
    /\ b \in Identifiers
    /\ token = "None"
    /\ ret = NoType
    /\ NoLayout
    /\ NoObjects

\* Type::escapeIdentifier(a) and Type::escapeIdentifier(b)
escapeIdentifierCall ==
    /\ pc = "start"
    /\ ret' = <<escapeIdentifier(a), escapeIdentifier(b)>>
    /\ pc' = "escapeIdentifier"
    /\ UNCHANGED <<a, b, token, layoutVars, objectVars>>

NextEscape == escapeIdentifierCall

SpecEscape == InitEscape /\ [][NextEscape]_vars

\* C11: Type::escapeIdentifier is injective: two different strings over
\* letters, digits, '_', '$', '(', ')' and ',' never have the same escaped
\* string.
C11_EscapeInjective ==
    (pc = "escapeIdentifier" /\ a # b) => ret[1] # ret[2]

\* ========================================================================
\* State machine: one Type object answers member, stack and interface-type
\* queries from its caches and has its caches cleared
\* ========================================================================
MaxLists == 3
MaxCalls == 2
MaxClears == 1

CacheTypes == {uint8, uint8Array, StructT(3, TRUE)}
CacheStates ==
    {"object", "members", "storageOffsets", "stackItems", "sizeOnStack",
     "interfaceType", "clearCache"}

InitCache ==
    /\ pc = "object"
    /\ a \in CacheTypes
    /\ b = NoType
    /\ token = "None"
    /\ ret = NoType
    /\ NoLayout
    /\ NoObjects

\* the test of Type::members taking every scope for uncached
membersCached_never(scope) == FALSE

\* the test of Type::members: m_members[_currentScope] is not null
membersCached(scope) == m_members[scope] # 0

\* Type::members(scope): the list is built from the native members and, in
\* a scope, the bound functions, and owned by m_members
membersCall ==
    /\ pc \in CacheStates
    /\ \E scope \in Scopes :
        /\ IF ~membersCached(scope)
           THEN /\ Len(memberLists) < MaxLists
                /\ memberLists' = Append(memberLists,
                       [scope |-> scope, epoch |-> epoch, bound |-> scope # "nullptr",
                        m_storageOffsets |-> Empty, computed |-> 0])
                /\ m_members' = [m_members EXCEPT ![scope] = Len(memberLists) + 1]
                /\ computed' = [computed EXCEPT
                       !.nativeMembers[scope] = @ + 1,
                       !.boundFunctions[scope] = IF scope # "nullptr" THEN @ + 1 ELSE @]
           ELSE UNCHANGED <<m_members, memberLists, computed>>
        /\ ret' = [scope |-> scope, list |-> m_members'[scope],
                   epoch |-> memberLists'[m_members'[scope]].epoch,
                   cached |-> membersCached(scope)]
    /\ pc' = "members"
    /\ UNCHANGED <<a, b, token, layoutVars, m_stackItems, m_stackSize,
                   m_interfaceType, m_interfaceType_library, epoch, compilerVars, currentScope, driverVars>>

\* MemberList::storageOffsets on a list m_members owns; LazyInit::init runs
\* its initializer when the value is not set yet
storageOffsetsCall ==
    /\ pc \in CacheStates
    /\ \E scope \in Scopes :
        /\ m_members[scope] # 0
        /\ LET list == m_members[scope] IN
           /\ memberLists' = [memberLists EXCEPT ![list] =
                  IF @.m_storageOffsets = Empty
                  THEN [@ EXCEPT !.m_storageOffsets = [epoch |-> epoch],
                                 !.computed = @ + 1]
                  ELSE @]
           /\ ret' = [list |-> list, epoch |-> memberLists'[list].m_storageOffsets.epoch,
                      cached |-> memberLists[list].m_storageOffsets # Empty]
    /\ pc' = "storageOffsets"
    /\ UNCHANGED <<a, b, token, layoutVars, m_members, m_stackItems, m_stackSize,
                   m_interfaceType, m_interfaceType_library, epoch, computed,
                   compilerVars, currentScope, driverVars>>

\* Type::stackItems: makeStackItems() fills the cache when it is empty
stackItemsCall ==
    /\ pc \in CacheStates
    /\ m_stackItems' = IF m_stackItems = Empty THEN [epoch |-> epoch] ELSE m_stackItems
    /\ ret' = m_stackItems'
    /\ pc' = "stackItems"
    /\ UNCHANGED <<a, b, token, layoutVars, m_members, memberLists, m_stackSize,
                   m_interfaceType, m_interfaceType_library, epoch, computed,
                   compilerVars, currentScope, driverVars>>

\* Type::sizeOnStack: sums the slots of stackItems() when the cache is empty
sizeOnStackCall ==
    /\ pc \in CacheStates
    /\ IF m_stackSize = Empty
       THEN /\ m_stackItems' =
                  IF m_stackItems = Empty THEN [epoch |-> epoch] ELSE m_stackItems
            /\ m_stackSize' = [epoch |-> m_stackItems'.epoch]
       ELSE UNCHANGED <<m_stackItems, m_stackSize>>
    /\ ret' = m_stackSize'
    /\ pc' = "sizeOnStack"
    /\ UNCHANGED <<a, b, token, layoutVars, m_members, memberLists,
                   m_interfaceType, m_interfaceType_library, epoch, computed,
                   compilerVars, currentScope, driverVars>>

\* ArrayType::interfaceType(inLibrary): the result is computed and stored in
\* m_interfaceType
ArrayType_interfaceTypeCall ==
    /\ pc \in CacheStates
    /\ a.cat = "Array"
    /\ \E inLibrary \in BOOLEAN :
        /\ computed.interfaceType[inLibrary] < MaxCalls
        /\ LET result == [value |-> ArrayType_interfaceType(a, inLibrary),
                          epoch |-> epoch, inLibrary |-> inLibrary]
           IN /\ m_interfaceType' = result
              /\ ret' = result
        /\ computed' = [computed EXCEPT !.interfaceType[inLibrary] = @ + 1]
    /\ pc' = "interfaceType"
    /\ UNCHANGED <<a, b, token, layoutVars, m_members, memberLists, m_stackItems,
                   m_stackSize, m_interfaceType_library, epoch, compilerVars, currentScope, driverVars>>

\* StructType::interfaceType(inLibrary): memoized in m_interfaceType_library
\* for a library and in m_interfaceType otherwise
StructType_interfaceTypeCall ==
    /\ pc \in CacheStates
    /\ a.cat = "Struct"
    /\ \E inLibrary \in BOOLEAN :
        LET result == [value |-> Type_interfaceType(a, inLibrary),
                       epoch |-> epoch, inLibrary |-> inLibrary]
        IN IF inLibrary
           THEN IF m_interfaceType_library # Empty
                THEN /\ ret' = m_interfaceType_library
                     /\ UNCHANGED <<m_interfaceType, m_interfaceType_library, computed>>
                ELSE /\ m_interfaceType_library' = result
                     /\ ret' = result
                     /\ computed' = [computed EXCEPT !.interfaceType[inLibrary] = @ + 1]
                     /\ UNCHANGED m_interfaceType
           ELSE IF m_interfaceType # Empty
                THEN /\ ret' = m_interfaceType
                     /\ UNCHANGED <<m_interfaceType, m_interfaceType_library, computed>>
                ELSE /\ m_interfaceType' = result
                     /\ ret' = result
                     /\ computed' = [computed EXCEPT !.interfaceType[inLibrary] = @ + 1]
                     /\ UNCHANGED m_interfaceType_library
    /\ pc' = "interfaceType"
    /\ UNCHANGED <<a, b, token, layoutVars, m_members, memberLists, m_stackItems,
                   m_stackSize, epoch, compilerVars, currentScope, driverVars>>

\* Type::clearCache leaving m_stackSize as it is
Type_clearCache_keepStackSize ==
    /\ m_members' = [s \in Scopes |-> 0]
    /\ memberLists' = [i \in 1..Len(memberLists) |->
                          [memberLists[i] EXCEPT !.m_storageOffsets = Empty,
                                                 !.computed = 0]]
    /\ m_stackItems' = Empty
    /\ UNCHANGED m_stackSize

\* Type::clearCache; the lists m_members owned are destroyed
Type_clearCache ==
    /\ m_members' = [s \in Scopes |-> 0]
    /\ memberLists' = [i \in 1..Len(memberLists) |->
                          [memberLists[i] EXCEPT !.m_storageOffsets = Empty,
                                                 !.computed = 0]]
    /\ m_stackItems' = Empty
    /\ m_stackSize' = Empty

ArrayType_clearCache ==
    /\ Type_clearCache
    /\ m_interfaceType' = Empty
    /\ m_interfaceType_library' = Empty

StructType_clearCache ==
    /\ Type_clearCache
    /\ m_interfaceType' = Empty
    /\ m_interfaceType_library' = Empty

\* a.clearCache(), virtual
clearCacheCall ==
    /\ pc \in CacheStates
    /\ epoch < MaxClears
    /\ CASE a.cat = "Array" -> ArrayType_clearCache
         [] a.cat = "Struct" -> StructType_clearCache
         [] OTHER -> Type_clearCache /\ UNCHANGED <<m_interfaceType, m_interfaceType_library>>
    /\ epoch' = epoch + 1
    /\ computed' = [nativeMembers |-> [s \in Scopes |-> 0],
                    boundFunctions |-> [s \in Scopes |-> 0],
                    interfaceType |-> [l \in BOOLEAN |-> 0]]
    /\ ret' = NoType
    /\ pc' = "clearCache"
    /\ UNCHANGED <<a, b, token, layoutVars, compilerVars, currentScope, driverVars>>

NextCache ==
    \/ membersCall
    \/ storageOffsetsCall
    \/ stackItemsCall
    \/ sizeOnStackCall
    \/ ArrayType_interfaceTypeCall
    \/ StructType_interfaceTypeCall
    \/ clearCacheCall

SpecCache == InitCache /\ [][NextCache]_vars

\* the member lists built since the last clearCache
LiveLists == {i \in 1..Len(memberLists) : memberLists[i].epoch = epoch}

\* C16: after the first members(s) call for a scope s every later members(s)
\* call returns the same MemberList without recomputing the native or bound
\* members, that MemberList computes its StorageOffsets at most once, until
\* clearCache is called; a call with another scope never returns or
\* overwrites the list cached for s.
C16_MembersComputedOnce ==
    /\ \A s \in Scopes :
          /\ computed.nativeMembers[s] <= 1
          /\ computed.boundFunctions[s] <= 1
          /\ Cardinality({i \in LiveLists : memberLists[i].scope = s}) <= 1
          /\ m_members[s] # 0 =>
                m_members[s] \in LiveLists /\ memberLists[m_members[s]].scope = s
    /\ \A i \in 1..Len(memberLists) : memberLists[i].computed <= 1
    /\ pc = "members" =>
          ret.list = m_members[ret.scope] /\ memberLists[ret.list].scope = ret.scope

\* C16 witness: a members call is served from the cache while another
\* scope has its list and the offsets of the returned list are computed
C16_SecondCallServed ==
    /\ pc = "members" /\ ret.cached
    /\ \E t \in Scopes : t # ret.scope /\ m_members[t] # 0
    /\ memberLists[ret.list].computed = 1

C18_InterfaceTypeComputedOnce ==
    a.cat = "Array" =>
        /\ \A l \in BOOLEAN : computed.interfaceType[l] <= 1
        /\ (pc = "interfaceType" /\ ret.inLibrary) => m_interfaceType_library = ret

\* ========================================================================
\* State machine: the bound functions of a type are collected in a scope
\* ========================================================================
MaxDirectives == 2

SelfStruct == StructT(3, TRUE)
\* functions f and g of a library, a second f of another declaration, a
\* function on the struct, a private one and one without parameters
Functions ==
    [f8 |-> [id |-> 11, name |-> "f", parameterTypes |-> <<uint8>>,
             isOrdinary |-> TRUE, isVisibleAsLibraryMember |-> TRUE],
     g16 |-> [id |-> 12, name |-> "g", parameterTypes |-> <<uint16, uint8>>,
              isOrdinary |-> TRUE, isVisibleAsLibraryMember |-> TRUE],
     f256 |-> [id |-> 13, name |-> "f", parameterTypes |-> <<uint256>>,
               isOrdinary |-> TRUE, isVisibleAsLibraryMember |-> TRUE],
     fStruct |-> [id |-> 14, name |-> "f", parameterTypes |-> <<SelfStruct>>,
                  isOrdinary |-> TRUE, isVisibleAsLibraryMember |-> TRUE],
     hidden |-> [id |-> 15, name |-> "p", parameterTypes |-> <<uint8>>,
                 isOrdinary |-> TRUE, isVisibleAsLibraryMember |-> FALSE],
     noParams |-> [id |-> 16, name |-> "n", parameterTypes |-> <<>>,
                   isOrdinary |-> TRUE, isVisibleAsLibraryMember |-> TRUE]]

Library ==
    [kind |-> "library",
     definedFunctions |-> <<Functions.f8, Functions.g16, Functions.fStruct,
                            Functions.hidden, Functions.noParams>>]
FunctionPath(function, name) == [kind |-> "function", function |-> function, name |-> name]

\* using L for *; using {f8, f256, fStruct, f8 as h} for T global, for two
\* types T; using L for the struct
Directives ==
    {[typeName |-> NoType, global |-> FALSE, functionsOrLibrary |-> <<Library>>],
     [typeName |-> uint8, global |-> FALSE,
      functionsOrLibrary |-> <<FunctionPath(Functions.f8, "f"),
                               FunctionPath(Functions.f256, "f"),
                               FunctionPath(Functions.f8, "h")>>],
     [typeName |-> StructT(3, FALSE), global |-> TRUE,
      functionsOrLibrary |-> <<FunctionPath(Functions.fStruct, "f"), Library>>]}

DirectiveLists == UNION {[1..n -> Directives] : n \in 0..MaxDirectives}

BoundTypes == {uint8, uint16, StructT(3, FALSE)}

\* the type is defined in the source unit of the scope or in another one
InitBound ==
    /\ pc = "start"
    /\ a \in BoundTypes
    /\ b = NoType
    /\ token = "None"
    /\ ret = NoType
    /\ NoLayout
    /\ NoCache /\ NoCompiler /\ NoDriver
    /\ \E kind \in {"SourceUnit", "ContractDefinition"}, sameUnit \in BOOLEAN,
          contractDirectives \in DirectiveLists, nodes \in DirectiveLists :
          /\ kind = "SourceUnit" => contractDirectives = <<>>
          /\ currentScope =
                [kind |-> kind, usingForDirectives |-> contractDirectives, nodes |-> nodes,
                 typeNodes |-> IF sameUnit THEN nodes
                               ELSE <<CHOOSE d \in Directives : d.global>>]

\* Type::boundFunctions(a, currentScope)
boundFunctionsCall ==
    /\ pc = "start"
    /\ ret' = boundFunctions(a, currentScope)
    /\ pc' = "boundFunctions"
    /\ UNCHANGED <<a, b, token, layoutVars, objectVars>>

NextBound == boundFunctionsCall

SpecBound == InitBound /\ [][NextBound]_vars

\* C19: the list Type::boundFunctions returns never holds two entries with
\* the same name and the same function declaration, whatever the contract,
\* file and global using-for directives are, and holds a function only if
\* the type is implicitly convertible to the self type of the function.
C19_BoundFunctionsDistinct ==
    pc = "boundFunctions" =>
        /\ \A i, j \in 1..Len(ret) :
              (ret[i].name = ret[j].name /\ ret[i].declaration.id = ret[j].declaration.id)
                  => i = j
        /\ \A i \in 1..Len(ret) :
              isImplicitlyConvertibleTo(a, ret[i].declaration.parameterTypes[1])

\* C19 witness: a function offered by the contract, by the file and by a
\* global directive is bound once, next to the same function under another
\* name
C19_OfferedThrice ==
    /\ pc = "boundFunctions"
    /\ Len(currentScope.usingForDirectives) > 0
    /\ Len(currentScope.nodes) > 0
    /\ a.cat = "Struct"
    /\ LET collected == collectDirectives(a, currentScope) IN
       Cardinality({k \in 1..Len(collected) : collected[k].global}) >= 3
    /\ Cardinality({i \in 1..Len(ret) : ret[i].declaration.id = 14}) = 1

\* ========================================================================
\* State machine: CompilerStack objects are constructed and destroyed, and
\* the live one interns types while it compiles
\* ========================================================================
MaxInstances == 2

InternedTypes == {uint8, uint16, uint256, int8, bytesMemory, stringMemory}
CompilerStates == {"process", "CompilerStack", "~CompilerStack", "compile"}

InitCompiler ==
    /\ pc = "process"
    /\ NoCall
    /\ NoLayout
    /\ NoObjects

\* CompilerStack::CompilerStack without the assertion on the counter
CompilerStackConstructor_noAssert ==
    /\ pc \in CompilerStates
    /\ \E this \in (1..MaxInstances) \ instances :
        /\ g_compilerStackCounts' = g_compilerStackCounts + 1
        /\ g_errorReporter' = this
        /\ instances' = instances \cup {this}
        /\ ret' = ""
    /\ pc' = "CompilerStack"
    /\ UNCHANGED <<a, b, token, layoutVars, cacheVars, typeProvider, currentScope, driverVars>>

\* CompilerStack::CompilerStack: a failed solAssert throws, and the object
\* never becomes alive
CompilerStackConstructor ==
    /\ pc \in CompilerStates
    /\ \E this \in (1..MaxInstances) \ instances :
        IF g_compilerStackCounts = 0
        THEN /\ g_compilerStackCounts' = g_compilerStackCounts + 1
             /\ g_errorReporter' = this
             /\ instances' = instances \cup {this}
             /\ ret' = ""
        ELSE /\ ret' = "You shall not have another CompilerStack aside me."
             /\ UNCHANGED <<g_compilerStackCounts, g_errorReporter, instances>>
    /\ pc' = "CompilerStack"
    /\ UNCHANGED <<a, b, token, layoutVars, cacheVars, typeProvider, currentScope, driverVars>>

\* CompilerStack::~CompilerStack; TypeProvider::reset() drops every
\* interned type
CompilerStackDestructor ==
    /\ pc \in CompilerStates
    /\ \E this \in instances :
        /\ g_compilerStackCounts' = g_compilerStackCounts - 1
        /\ typeProvider' = {}
        /\ instances' = instances \ {this}
    /\ ret' = ""
    /\ pc' = "~CompilerStack"
    /\ UNCHANGED <<a, b, token, layoutVars, cacheVars, g_errorReporter, currentScope, driverVars>>

\* a live CompilerStack compiles: the TypeProvider interns a type
compile ==
    /\ pc \in CompilerStates
    /\ instances # {}
    /\ \E type \in InternedTypes : typeProvider' = typeProvider \cup {type}
    /\ ret' = ""
    /\ pc' = "compile"
    /\ UNCHANGED <<a, b, token, layoutVars, cacheVars, g_compilerStackCounts,
                   g_errorReporter, instances, currentScope, driverVars>>

NextCompiler ==
    \/ CompilerStackConstructor
    \/ CompilerStackDestructor
    \/ compile

SpecCompiler == InitCompiler /\ [][NextCompiler]_vars

\* C20: over any sequence of constructions and destructions the counter
\* g_compilerStackCounts equals the number of live CompilerStack objects and
\* is 0 or 1; constructing a second one while one is alive fails with the
\* assertion "You shall not have another CompilerStack aside me." and leaves
\* the counter as it was; destroying the live one resets the interned types.
C20_OneCompilerStack ==
    /\ [](/\ g_compilerStackCounts = Cardinality(instances)
          /\ g_compilerStackCounts \in {0, 1}
          /\ instances = {} => typeProvider = {})
    /\ [][/\ (pc' = "CompilerStack" /\ instances # {}) =>
               /\ ret' = "You shall not have another CompilerStack aside me."
               /\ g_compilerStackCounts' = g_compilerStackCounts
               /\ instances' = instances
          /\ (pc' = "CompilerStack" /\ instances = {}) =>
               /\ ret' = ""
               /\ Cardinality(instances') = 1
          /\ pc' = "~CompilerStack" => typeProvider' = {}]_vars

\* C20 witness: a second construction has just failed while the first
\* object is alive and has interned types
C20_SecondRefused ==
    /\ pc = "CompilerStack"
    /\ ret = "You shall not have another CompilerStack aside me."
    /\ g_compilerStackCounts = 1
    /\ typeProvider # {}

\* ========================================================================
\* State machine: a StackPusherHelper drops values from the tracked stack
\* A pusher is the pair [m_size, lines] of its TVMStack and its CodeLines
\* ========================================================================
MaxCount == 17
InitialStackSize == 40

\* TVMStack::change
change(pusher, diff) == [pusher EXCEPT !.m_size = @ + diff]

\* StackPusherHelper::push, through StackPusherImpl::push: the command is
\* appended to the code and the stack size changed
push(pusher, stackDiff, cmd) ==
    change([pusher EXCEPT !.lines = Append(@, cmd)], stackDiff)

\* StackPusherHelper::pushInt
pushInt(pusher, i) == push(pusher, 1, "PUSHINT " \o ToString(i))

\* StackPusherHelper::drop taking DROPX to remove cnt values
drop_countNotPopped(pusher, cnt) ==
    IF cnt = 0 THEN pusher
    ELSE IF cnt = 1 THEN push(pusher, -1, "DROP")
    ELSE IF cnt > 15 THEN push(pushInt(pusher, cnt), -cnt, "DROPX")
    ELSE push(pusher, -cnt, "BLKDROP " \o ToString(cnt))

\* StackPusherHelper::drop
drop(pusher, cnt) ==
    IF cnt = 0 THEN pusher
    ELSE IF cnt = 1 THEN push(pusher, -1, "DROP")
    ELSE IF cnt > 15 THEN push(pushInt(pusher, cnt), -(cnt + 1), "DROPX")
    ELSE push(pusher, -cnt, "BLKDROP " \o ToString(cnt))

\* the lambda f of StackPusherHelper::dropUnder
dropUnder_f(pusher, leftCount, droppedCount) ==
    drop(IF droppedCount > 15 \/ leftCount > 15
         THEN push(pushInt(pushInt(pusher, droppedCount), leftCount), -2, "BLKSWX")
         ELSE push(pusher, 0,
                   "BLKSWAP " \o ToString(droppedCount) \o ", " \o ToString(leftCount)),
         droppedCount)

\* StackPusherHelper::dropUnder
dropUnder(pusher, leftCount, droppedCount) ==
    IF droppedCount = 0 THEN pusher
    ELSE IF leftCount = 0 THEN drop(pusher, droppedCount)
    ELSE IF droppedCount = 1
    THEN IF leftCount = 1 THEN push(pusher, -1, "NIP")
         ELSE dropUnder_f(pusher, leftCount, droppedCount)
    ELSE IF droppedCount = 2
    THEN IF leftCount = 1 THEN push(push(pusher, -1, "NIP"), -1, "NIP")
         ELSE dropUnder_f(pusher, leftCount, droppedCount)
    ELSE IF leftCount = 1
    THEN drop(push(pusher, 0, "XCHG s" \o ToString(droppedCount)), droppedCount)
    ELSE dropUnder_f(pusher, leftCount, droppedCount)

InitPusher ==
    /\ pc = "start"
    /\ NoCall
    /\ NoLayout
    /\ NoCache /\ NoCompiler /\ currentScope = NoScope
    /\ m_size = InitialStackSize
    /\ lines = <<>>
    /\ NoEncoder /\ NoStack

\* drop(cnt); the code asserts cnt >= 0
dropCall ==
    /\ pc = "start"
    /\ \E cnt \in 0..MaxCount :
        /\ ret' = [size |-> m_size, cnt |-> cnt]
        /\ m_size' = drop([m_size |-> m_size, lines |-> lines], cnt).m_size
        /\ lines' = drop([m_size |-> m_size, lines |-> lines], cnt).lines
    /\ pc' = "drop"
    /\ UNCHANGED <<a, b, token, layoutVars, cacheVars, compilerVars, currentScope,
                   encoderVars, stackVars>>

\* dropUnder(leftCount, droppedCount); the code asserts both are >= 0
dropUnderCall ==
    /\ pc = "start"
    /\ \E leftCount \in 0..MaxCount, droppedCount \in 0..MaxCount :
        /\ ret' = [size |-> m_size, leftCount |-> leftCount, droppedCount |-> droppedCount]
        /\ m_size' = dropUnder([m_size |-> m_size, lines |-> lines],
                                leftCount, droppedCount).m_size
        /\ lines' = dropUnder([m_size |-> m_size, lines |-> lines],
                               leftCount, droppedCount).lines
    /\ pc' = "dropUnder"
    /\ UNCHANGED <<a, b, token, layoutVars, cacheVars, compilerVars, currentScope,
                   encoderVars, stackVars>>

NextPusher == dropCall \/ dropUnderCall

SpecPusher == InitPusher /\ [][NextPusher]_vars

\* C29: dropUnder(leftCount, droppedCount) changes the tracked stack size by
\* exactly -droppedCount and drop(cnt) by exactly -cnt, in every branch: NIP,
\* XCHG, BLKSWAP / BLKDROP, and the BLKSWX / DROPX forms of counts above 15.
C29_DropChangesSizeByCount ==
    /\ pc = "drop" => m_size = ret.size - ret.cnt
    /\ pc = "dropUnder" => m_size = ret.size - ret.droppedCount

\* C29 witness: more than 15 values have been dropped under more than one,
\* through BLKSWX and DROPX
C29_LargeDropUnder ==
    /\ pc = "dropUnder"
    /\ ret.droppedCount > 15 /\ ret.leftCount > 1
    /\ lines[Len(lines)] = "DROPX"
    /\ \E i \in 1..Len(lines) : lines[i] = "BLKSWX"
    /\ m_size = ret.size - ret.droppedCount

\* ========================================================================
\* State machine: StackPusherHelper encodes the parameters of an outbound
\* message into a chain of cells
\* ========================================================================
MaxParams == 6

\* TvmConst::CellBitLength
CellBitLength == 1023

\* isAddressType
isAddressType(type) == type.cat \in {"Address", "Contract"}

\* isTvmCell
isTvmCell(type) == type.cat = "Struct" /\ DeclName(type.decl) = "TvmCell"

\* TypeInfo::TypeInfo: isNumeric and numBits; bitsForEnum of the two
\* members of the model's enums is 8
TypeInfo(type) ==
    CASE type.cat = "Integer" -> [isNumeric |-> TRUE, isSigned |-> type.signed,
                                  numBits |-> type.bits]
      [] type.cat = "Bool" -> [isNumeric |-> TRUE, isSigned |-> TRUE, numBits |-> 1]
      [] type.cat = "FixedBytes" -> [isNumeric |-> TRUE, isSigned |-> FALSE,
                                     numBits |-> 8 * type.numBytes]
      [] type.cat = "Enum" -> [isNumeric |-> TRUE, isSigned |-> FALSE, numBits |-> 8]
      [] OTHER -> [isNumeric |-> FALSE, isSigned |-> FALSE, numBits |-> 0]

\* isIntegralType
isIntegralType(type) == TypeInfo(type).isNumeric

\* ABITypeSize::ABITypeSize, with AddressInfo::maxBitLength for an address
ABITypeSize(type) ==
    IF isAddressType(type) THEN [maxBits |-> 2 + 1 + (2 * 30) + 8 + 256, refs |-> 0]
    ELSE IF isIntegralType(type) THEN [maxBits |-> TypeInfo(type).numBits, refs |-> 0]
    ELSE IF type.cat = "Array"
    THEN IF isByteArray(type) THEN [maxBits |-> 0, refs |-> 1]
         ELSE [maxBits |-> 32, refs |-> 1]
    ELSE [maxBits |-> 0, refs |-> 1]

\* the types ABITypeSize accepts, as parameters of the encoded function
ParamTypes ==
    {uint256, BoolT, AddressT, bytesMemory, uint8Array, StructT(8, FALSE)}

\* EncodePosition::EncodePosition leaving the bits already stored uncounted
EncodePosition_bitsNotCounted(bits) ==
    [restSliceBits |-> CellBitLength, restFef |-> 3, qtyOfCreatedBuilders |-> 0]

\* EncodePosition::EncodePosition
EncodePosition(bits) ==
    [restSliceBits |-> CellBitLength - bits, restFef |-> 3, qtyOfCreatedBuilders |-> 0]

\* EncodePosition::needNewCell: the new position and the returned value
needNewCell(pos, type) ==
    With(ABITypeSize(type), LAMBDA size :
        IF pos.restSliceBits - size.maxBits < 0 \/ pos.restFef - size.refs = 0
        THEN [position |-> [restSliceBits |-> CellBitLength - size.maxBits,
                            restFef |-> 4 - size.refs,
                            qtyOfCreatedBuilders |-> pos.qtyOfCreatedBuilders + 1],
              result |-> TRUE]
        ELSE [position |-> [pos EXCEPT !.restSliceBits = @ - size.maxBits,
                                       !.restFef = @ - size.refs],
              result |-> FALSE])

\* storeIntegralOrAddress(type, true)
storeIntegralOrAddress(type) ==
    IF isAddressType(type) THEN "STSLICER"
    ELSE (IF TypeInfo(type).isSigned THEN "STIR" ELSE "STUR")
         \o " " \o ToString(TypeInfo(type).numBits)

\* the instructions of StackPusherHelper::encodeParameter for a type that
\* is not a plain struct, given what needNewCell returned; pushParam, the
\* caller's callback, puts the parameter on the stack
encodeParameter_code(pusher, type, newCell) ==
    With(push(IF newCell THEN push(pusher, 1, "NEWC") ELSE pusher, 1, "PUSH param"),
         LAMBDA pushed :
            IF isIntegralType(type) \/ isAddressType(type)
            THEN push(pushed, -1, storeIntegralOrAddress(type))
            ELSE IF type.cat = "Array" /\ ~isByteArray(type)
            THEN push(pushed, -2 + 1, "CALL $encode_array_macro$")
            ELSE push(pushed, -1, "STREFR"))

\* what the store instruction of a parameter adds to the builder on top
\* of the stack, a new one after NEWC
store(builders, type, newCell) ==
    With(IF newCell THEN Append(builders, [bits |-> 0, refs |-> 0]) ELSE builders,
         LAMBDA bs :
            [bs EXCEPT ![Len(bs)] = [bits |-> @.bits + ABITypeSize(type).maxBits,
                                     refs |-> @.refs + ABITypeSize(type).refs]])

RECURSIVE STBREFR(_, _, _)
\* the closing loop of StackPusherHelper::encodeParameters: one STBREFR
\* for each created builder
STBREFR(pusher, idx, count) ==
    IF idx >= count THEN pusher
    ELSE STBREFR(push(pusher, -1, "STBREFR"), idx + 1, count)

\* the number of lines of a CodeLines that are the instruction cmd
RECURSIVE CountLines(_, _)
CountLines(code, cmd) ==
    IF code = <<>> THEN 0
    ELSE (IF Head(code) = cmd THEN 1 ELSE 0) + CountLines(Tail(code), cmd)

InitEncoder ==
    /\ pc = "start"
    /\ NoCall
    /\ NoLayout
    /\ NoCache /\ NoCompiler /\ currentScope = NoScope
    /\ m_size = 0
    /\ lines = <<>>
    /\ NoEncoder /\ NoStack

\* StackPusherHelper::encodeFunctionAndParams up to the call of
\* encodeParameters, for an internal call: the function id is stored in
\* a new builder and the position starts after its 32 bits
encodeFunctionAndParams ==
    /\ pc = "start"
    /\ m_size' = push(push(push([m_size |-> m_size, lines |-> lines], 1, "NEWC"),
                           1, "PUSHINT $f$"), -1, "STUR 32").m_size
    /\ lines' = push(push(push([m_size |-> m_size, lines |-> lines], 1, "NEWC"),
                          1, "PUSHINT $f$"), -1, "STUR 32").lines
    /\ position' = EncodePosition(32)
    /\ cells' = <<[bits |-> 32, refs |-> 0]>>
    /\ pc' = "encodeParameters"
    /\ ret' = 0
    /\ UNCHANGED <<a, b, token, layoutVars, cacheVars, compilerVars, currentScope,
                   stackVars>>

\* one iteration of the loop of StackPusherHelper::encodeParameters:
\* encodeParameter of the next type; ret counts the iterations
encodeParameter ==
    /\ pc = "encodeParameters"
    /\ ret < MaxParams
    /\ \E type \in ParamTypes :
        /\ position' = needNewCell(position, type).position
        /\ cells' = store(cells, type, needNewCell(position, type).result)
        /\ m_size' = encodeParameter_code([m_size |-> m_size, lines |-> lines], type,
                                          needNewCell(position, type).result).m_size
        /\ lines' = encodeParameter_code([m_size |-> m_size, lines |-> lines], type,
                                         needNewCell(position, type).result).lines
    /\ ret' = ret + 1
    /\ UNCHANGED <<pc, a, b, token, layoutVars, cacheVars, compilerVars, currentScope,
                   stackVars>>

\* the end of StackPusherHelper::encodeParameters: every builder but the
\* first is stored as a reference of the one beneath it
encodeParameters ==
    /\ pc = "encodeParameters"
    /\ m_size' = STBREFR([m_size |-> m_size, lines |-> lines], 0,
                         position.qtyOfCreatedBuilders).m_size
    /\ lines' = STBREFR([m_size |-> m_size, lines |-> lines], 0,
                        position.qtyOfCreatedBuilders).lines
    /\ cells' = [i \in 1..Len(cells) |->
                    IF i < Len(cells) THEN [cells[i] EXCEPT !.refs = @ + 1] ELSE cells[i]]
    /\ pc' = "encoded"
    /\ UNCHANGED <<a, b, token, ret, position, layoutVars, cacheVars, compilerVars,
                   currentScope, stackVars>>

NextEncoder == encodeFunctionAndParams \/ encodeParameter \/ encodeParameters

SpecEncoder == InitEncoder /\ [][NextEncoder]_vars

\* the references a cell uses, counting the one that will link the next cell
CellRefs(i) ==
    cells[i].refs + (IF pc = "encodeParameters" /\ i < Len(cells) THEN 1 ELSE 0)

\* C30: while parameters of at most 1023 bits and one reference each are
\* encoded, no cell holds more than 1023 bits (the first one includes the
\* 32 bits of the function id) or uses more than 4 references, the link to
\* the next cell included; countOfCreatedBuilders is the number of
\* needNewCell calls that returned true (one NEWC each), and encodeParameters
\* emits that many STBREFR.
C30_CellsWithinLimits ==
    pc \in {"encodeParameters", "encoded"} =>
        /\ \A i \in 1..Len(cells) :
              cells[i].bits <= CellBitLength /\ CellRefs(i) <= 4
        /\ position.qtyOfCreatedBuilders = CountLines(lines, "NEWC") - 1
        /\ Len(cells) = position.qtyOfCreatedBuilders + 1
        /\ pc = "encoded" =>
              CountLines(lines, "STBREFR") = position.qtyOfCreatedBuilders

\* C30 witness: the encoding has ended with three cells, the second of
\* them using all four references, and two STBREFR
C30_FullCell ==
    /\ pc = "encoded"
    /\ Len(cells) = 3
    /\ cells[2].refs = 4
    /\ CountLines(lines, "STBREFR") = 2

\* ========================================================================
\* State machine: the states of a CompilerStack
\* stack holds m_stackState, m_hasError, m_stopAfter, m_parserErrorRecovery
\* and the settings; ret is the last call: its name, what it threw (""
\* when it returned), the message thrown and the value returned: <<>> for
\* void, one boolean, or the two of a pair
\* ========================================================================
MaxSettings == 2

\* CompilerStack::State, in the order of the enumeration
State ==
    [Empty |-> 0, SourcesSet |-> 1, Parsed |-> 2, ParsedAndImported |-> 3,
     AnalysisPerformed |-> 4, CompilationSuccessful |-> 5]

\* the settings of a CompilerStack and their values after reset(false);
\* 0 is the default of each setting
Settings ==
    {"m_importRemapper", "m_viaIR", "m_evmVersion", "m_tvmVersion", "m_libraries",
     "m_optimiserSettings", "m_revertStrings", "m_metadataLiteralSources",
     "m_metadataHash"}

\* how many settings differ from their default
Changed(s) == Cardinality({f \in Settings : s[f] # 0})

\* a call that returned result / that threw
Return(s, result) == [stack |-> s, threw |-> "", message |-> "", result |-> result]
Throw(s, exception, message) ==
    [stack |-> s, threw |-> exception, message |-> message, result |-> <<>>]

\* the guard and the assignment every settings setter consists of
setSetting(s, field, value, message) ==
    IF s.m_stackState >= State.ParsedAndImported
    THEN Throw(s, "CompilerError", message)
    ELSE Return([s EXCEPT ![field] = value], <<>>)

\* CompilerStack::reset
reset(s, keepSettings) ==
    Return([f \in DOMAIN s |->
              CASE f = "m_stackState" -> State.Empty
                [] f = "m_hasError" -> FALSE
                [] f = "m_stopAfter" ->
                     IF keepSettings THEN s[f] ELSE State.CompilationSuccessful
                [] f \in Settings \ {"m_tvmVersion"} ->
                     IF keepSettings THEN s[f] ELSE 0
                [] OTHER -> s[f]],
           <<>>)

\* CompilerStack::setSources
setSources(s) ==
    IF s.m_stackState = State.SourcesSet
    THEN Throw(s, "CompilerError", "Cannot change sources once set.")
    ELSE IF s.m_stackState # State.Empty
    THEN Throw(s, "CompilerError", "Must set sources before parsing.")
    ELSE Return([s EXCEPT !.m_stackState = State.SourcesSet], <<>>)

\* CompilerStack::parse entered in any state
parse_noStateCheck(s, errors) ==
    With([s EXCEPT !.m_stackState = IF s.m_stopAfter <= State.Parsed
                                    THEN State.Parsed
                                    ELSE State.ParsedAndImported,
                   !.m_hasError = @ \/ errors],
         LAMBDA parsed : Return(parsed, <<~parsed.m_hasError>>))

\* CompilerStack::parse; errors: the parser reported an error
parse(s, errors) ==
    IF s.m_stackState # State.SourcesSet
    THEN Throw(s, "CompilerError", "Must call parse only after the SourcesSet state.")
    ELSE With([s EXCEPT !.m_stackState = IF s.m_stopAfter <= State.Parsed
                                         THEN State.Parsed
                                         ELSE State.ParsedAndImported,
                        !.m_hasError = @ \/ errors],
              LAMBDA parsed : Return(parsed, <<~parsed.m_hasError>>))

\* CompilerStack::importASTs
importASTs(s) ==
    IF s.m_stackState # State.Empty
    THEN Throw(s, "CompilerError",
               "Must call importASTs only before the SourcesSet state.")
    ELSE Return([s EXCEPT !.m_stackState = State.ParsedAndImported], <<>>)

\* how the checks of an analysis can go: a FatalError with nothing
\* reported, a step after whose failure analyze returns at once
\* (registerDeclarations, performImports, resolveNamesAndTypes,
\* DeclarationTypeChecker), or all steps run, with or without errors
AnalysisOutcomes == {"FatalError", "return false", "errors", "no errors"}

\* CompilerStack::analyze
analyze(s, outcome) ==
    IF s.m_stackState # State.ParsedAndImported
       \/ s.m_stackState >= State.AnalysisPerformed
    THEN Throw(s, "CompilerError", "Must call analyze only after parsing was performed.")
    ELSE IF outcome = "FatalError" THEN Throw(s, "FatalError", "")
    ELSE IF outcome = "return false" THEN Return(s, <<FALSE>>)
    ELSE With([s EXCEPT !.m_stackState = State.AnalysisPerformed,
                        !.m_hasError = @ \/ outcome = "errors"],
              LAMBDA analysed : Return(analysed, <<~analysed.m_hasError>>))

\* CompilerStack::parseAndAnalyze
parseAndAnalyze(s, stopAfter, errors, outcome) ==
    With(parse([s EXCEPT !.m_stopAfter = stopAfter], errors), LAMBDA parsed :
        IF parsed.threw # "" THEN parsed
        ELSE IF parsed.stack.m_stackState >= parsed.stack.m_stopAfter THEN parsed
        ELSE IF parsed.result[1] \/ parsed.stack.m_parserErrorRecovery
        THEN analyze(parsed.stack, outcome)
        ELSE parsed)

\* how the selection and compilation of the target contract can go
CompileOutcomes == {"typeError", "FatalError", "compiled"}

\* CompilerStack::compile setting CompilationSuccessful whatever m_hasError is
CompilerStack_compile_noErrorCheck(s, errors, outcome, target) ==
    With(IF s.m_stackState < State.AnalysisPerformed
         THEN parseAndAnalyze(s, State.CompilationSuccessful, errors, outcome)
         ELSE Return(s, <<TRUE>>),
         LAMBDA analysed :
            IF analysed.threw # "" THEN analysed
            ELSE IF ~analysed.result[1] THEN Return(analysed.stack, <<FALSE, FALSE>>)
            ELSE IF target = "typeError"
            THEN Return(analysed.stack, <<FALSE, FALSE>>)
            ELSE IF target = "FatalError"
            THEN Return(analysed.stack, <<FALSE, FALSE>>)
            ELSE Return([analysed.stack EXCEPT
                            !.m_stackState = State.CompilationSuccessful],
                        <<TRUE, TRUE>>))

\* CompilerStack::compile; the pair returned is {success, didCompileSomething}
CompilerStack_compile(s, errors, outcome, target) ==
    With(IF s.m_stackState < State.AnalysisPerformed
         THEN parseAndAnalyze(s, State.CompilationSuccessful, errors, outcome)
         ELSE Return(s, <<TRUE>>),
         LAMBDA analysed :
            IF analysed.threw # "" THEN analysed
            ELSE IF ~analysed.result[1] THEN Return(analysed.stack, <<FALSE, FALSE>>)
            ELSE IF analysed.stack.m_hasError
            THEN Throw(analysed.stack, "CompilerError", "Called compile with errors.")
            ELSE IF target = "typeError"
            THEN Return(analysed.stack, <<FALSE, FALSE>>)
            ELSE IF target = "FatalError"
            THEN Return(analysed.stack, <<FALSE, FALSE>>)
            ELSE Return([analysed.stack EXCEPT
                            !.m_stackState = State.CompilationSuccessful],
                        <<TRUE, TRUE>>))

\* a new CompilerStack: reset(false) has its values, and the parser's
\* error recovery is on or off
InitStack ==
    /\ pc = "stack"
    /\ a = NoType /\ b = NoType /\ token = "None"
    /\ ret = [op |-> "CompilerStack", threw |-> "", message |-> "", result |-> <<>>]
    /\ NoLayout
    /\ NoCache /\ NoCompiler /\ currentScope = NoScope
    /\ NoPusher /\ NoEncoder /\ NoImports
    /\ \E recovery \in BOOLEAN :
        stack = [m_stackState |-> State.Empty, m_hasError |-> FALSE,
                 m_stopAfter |-> State.CompilationSuccessful,
                 m_parserErrorRecovery |-> recovery,
                 m_importRemapper |-> 0, m_viaIR |-> 0, m_evmVersion |-> 0,
                 m_tvmVersion |-> 0, g_tvmVersion |-> 0, m_libraries |-> 0,
                 m_optimiserSettings |-> 0, m_revertStrings |-> 0,
                 m_metadataLiteralSources |-> 0, m_metadataHash |-> 0]

\* the call op ends as done says; at most MaxSettings settings are taken
\* away from their defaults
Call(op, done) ==
    /\ pc = "stack"
    /\ Changed(done.stack) <= MaxSettings
    /\ stack' = done.stack
    /\ ret' = [op |-> op, threw |-> done.threw, message |-> done.message,
               result |-> done.result]
    /\ UNCHANGED <<pc, a, b, token, layoutVars, cacheVars, compilerVars, currentScope,
                   pusherVars, encoderVars, importVars>>

\* CompilerStack::setRemappings; every remapping given has a prefix
setRemappings ==
    \E value \in {0, 1} :
        Call("setRemappings", setSetting(stack, "m_importRemapper", value,
                               "Must set remappings before parsing."))

\* CompilerStack::setViaIR
setViaIR ==
    \E value \in {0, 1} :
        Call("setViaIR", setSetting(stack, "m_viaIR", value,
                               "Must set viaIR before parsing."))

\* CompilerStack::setEVMVersion
setEVMVersion ==
    \E value \in {0, 1} :
        Call("setEVMVersion", setSetting(stack, "m_evmVersion", value,
                               "Must set EVM version before parsing."))

\* CompilerStack::setLibraries
setLibraries ==
    \E value \in {0, 1} :
        Call("setLibraries", setSetting(stack, "m_libraries", value,
                               "Must set libraries before parsing."))

\* CompilerStack::setOptimiserSettings; both overloads end in this assignment
setOptimiserSettings ==
    \E value \in {0, 1} :
        Call("setOptimiserSettings", setSetting(stack, "m_optimiserSettings", value,
                               "Must set optimiser settings before parsing."))

\* CompilerStack::useMetadataLiteralSources
useMetadataLiteralSources ==
    \E value \in {0, 1} :
        Call("useMetadataLiteralSources", setSetting(stack, "m_metadataLiteralSources", value,
                               "Must set use literal sources before parsing."))

\* CompilerStack::setMetadataHash
setMetadataHash ==
    \E value \in {0, 1} :
        Call("setMetadataHash", setSetting(stack, "m_metadataHash", value,
                               "Must set metadata hash before parsing."))

\* CompilerStack::setTVMVersion, which also sets GlobalParams::g_tvmVersion
setTVMVersion ==
    \E value \in {0, 1} :
        Call("setTVMVersion",
             With(setSetting(stack, "m_tvmVersion", value,
                             "Must set TVM version before parsing."),
                  LAMBDA done :
                     IF done.threw # "" THEN done
                     ELSE [done EXCEPT !.stack.g_tvmVersion = value]))

\* CompilerStack::setRevertStringBehaviour; the value 2 is
\* RevertStrings::VerboseDebug
setRevertStringBehaviour ==
    \E value \in {0, 1, 2} :
        Call("setRevertStringBehaviour",
             IF stack.m_stackState < State.ParsedAndImported /\ value = 2
             THEN Throw(stack, "UnimplementedFeatureError", "")
             ELSE setSetting(stack, "m_revertStrings", value,
                             "Must set revert string settings before parsing."))

resetCall == \E keepSettings \in BOOLEAN : Call("reset", reset(stack, keepSettings))

setSourcesCall == Call("setSources", setSources(stack))

parseCall == \E errors \in BOOLEAN : Call("parse", parse(stack, errors))

importASTsCall == Call("importASTs", importASTs(stack))

analyzeCall == \E outcome \in AnalysisOutcomes : Call("analyze", analyze(stack, outcome))

parseAndAnalyzeCall ==
    \E stopAfter \in {State.Parsed, State.ParsedAndImported, State.CompilationSuccessful},
       errors \in BOOLEAN, outcome \in AnalysisOutcomes :
        Call("parseAndAnalyze", parseAndAnalyze(stack, stopAfter, errors, outcome))

compileCall ==
    \E errors \in BOOLEAN, outcome \in AnalysisOutcomes, target \in CompileOutcomes :
        Call("compile", CompilerStack_compile(stack, errors, outcome, target))

NextStack ==
    \/ setRemappings \/ setViaIR \/ setEVMVersion \/ setTVMVersion \/ setLibraries
    \/ setOptimiserSettings \/ setRevertStringBehaviour \/ useMetadataLiteralSources
    \/ setMetadataHash
    \/ resetCall \/ setSourcesCall \/ parseCall \/ importASTsCall \/ analyzeCall
    \/ parseAndAnalyzeCall \/ compileCall

SpecStack == InitStack /\ [][NextStack]_vars

\* the names of the settings setters
Setters ==
    {"setRemappings", "setViaIR", "setEVMVersion", "setTVMVersion", "setLibraries",
     "setOptimiserSettings", "setRevertStringBehaviour", "useMetadataLiteralSources",
     "setMetadataHash"}

\* the step is a call of op entered in state from; it is refused when it
\* throws CompilerError and leaves the state as it was
Refused ==
    ret'.threw = "CompilerError" /\ stack'.m_stackState = stack.m_stackState
AcceptedOnlyIn(op, from) ==
    ret'.op = op =>
        IF stack.m_stackState = from THEN ret'.threw # "CompilerError" ELSE Refused

\* C21: over any sequence of setSources, parse, importASTs, analyze,
\* parseAndAnalyze, compile and reset calls the stack state never moves to a
\* lower state except through reset(), which sets it to Empty; setSources
\* and importASTs are accepted only in Empty, parse only in SourcesSet and
\* analyze only in ParsedAndImported, and in any other state they throw
\* CompilerError and leave the state unchanged.
C21_StateOnlyAdvances ==
    [][/\ ret'.op = "reset" => stack'.m_stackState = State.Empty
       /\ ret'.op # "reset" => stack'.m_stackState >= stack.m_stackState
       /\ AcceptedOnlyIn("setSources", State.Empty)
       /\ AcceptedOnlyIn("importASTs", State.Empty)
       /\ AcceptedOnlyIn("parse", State.SourcesSet)
       /\ AcceptedOnlyIn("analyze", State.ParsedAndImported)]_vars

\* C21 witness: after a successful compilation analyze has been refused
C21_AnalyzeRefusedAfterCompile ==
    /\ pc = "stack"
    /\ stack.m_stackState = State.CompilationSuccessful
    /\ ret.op = "analyze" /\ ret.threw = "CompilerError"

\* C22: once parse() has completed, whatever state it was asked to stop
\* after, every settings setter throws CompilerError and leaves the settings
\* unchanged, until reset() is called.
C22_SettersRefusedAfterParse ==
    [][(stack.m_stackState >= State.Parsed /\ ret'.op \in Setters) =>
          ret'.threw = "CompilerError" /\ stack' = stack]_vars

\* C23: whenever analyze() returns without throwing, the state is
\* AnalysisPerformed and the value returned is !m_hasError; a compile() that
\* follows an analyze() that returned false is rejected with
\* "Called compile with errors.".
C23_AnalyzeReturnMatchesHasError ==
    /\ [](pc = "stack" /\ ret.op = "analyze" /\ ret.threw = "" =>
            /\ stack.m_stackState = State.AnalysisPerformed
            /\ ret.result = <<~stack.m_hasError>>)
    /\ [][(ret.op = "analyze" /\ ret.result = <<FALSE>> /\ ret'.op = "compile") =>
             ret'.message = "Called compile with errors."]_vars

MaxSources == 3
MaxImports == 3

Paths == 1..MaxSources

\* the directives a source can hold: at most MaxImports in all sources
ImportLists(budget) ==
    UNION {[1..len -> Paths] : len \in 0..budget}

\* the number of import directives parsed so far
DirectiveCount(sources) ==
    LET RECURSIVE Sum(_)
        Sum(p) == IF p > MaxSources THEN 0 ELSE Len(sources[p].imports) + Sum(p + 1)
    IN Sum(1)

\* the keys of a std::map or std::set of paths in their order
RECURSIVE Keys(_)
Keys(set) ==
    IF set = {} THEN <<>>
    ELSE With(CHOOSE p \in set : \A q \in set : p <= q,
              LAMBDA first : <<first>> \o Keys(set \ {first}))

\* the paths of a sequence
Elements(seq) == {seq[idx] : idx \in 1..Len(seq)}

\* the loop of CompilerStack::loadMissingSources from directive idx on;
\* results[idx] is what m_readFile answers if it is called for directive idx
RECURSIVE loadMissingSources_loop(_, _, _, _, _, _)
loadMissingSources_loop(sources, importer, results, idx, newSources, calls) ==
    IF idx > Len(sources[importer].imports)
    THEN [newSources |-> newSources, calls |-> calls]
    ELSE With(sources[importer].imports[idx], LAMBDA importPath :
            IF sources[importPath].in \/ importPath \in newSources
            THEN loadMissingSources_loop(sources, importer, results, idx + 1,
                                         newSources, calls)
            ELSE loadMissingSources_loop(
                    sources, importer, results, idx + 1,
                    IF results[idx] THEN newSources \cup {importPath} ELSE newSources,
                    Append(calls, [importer |-> importer, path |-> importPath,
                                   known |-> sources[importPath].in,
                                   success |-> results[idx]])))

\* CompilerStack::loadMissingSources for the AST of importer: the paths
\* of newSources and the calls of m_readFile it made
loadMissingSources(sources, importer, results) ==
    loadMissingSources_loop(sources, importer, results, 1, {}, <<>>)

\* CompilerStack::isRequestedSource; no name requested is the empty map
isRequestedSource(requested, sourceName) ==
    requested = {} \/ sourceName \in requested

RECURSIVE toposort_preorder(_, _, _)
RECURSIVE toposort_imports_preorder(_, _, _, _)
\* the lambda toposort of CompilerStack::resolveImports adding a source to
\* sourceOrder before the sources it imports
toposort_preorder(sources, source, acc) ==
    IF acc.failed \/ source \in acc.sourcesSeen THEN acc
    ELSE With([acc EXCEPT !.sourcesSeen = @ \cup {source},
                          !.sourceOrder = Append(@, source)],
              LAMBDA seen :
                IF sources[source].ast
                THEN toposort_imports_preorder(sources, sources[source].imports, 1, seen)
                ELSE seen)
toposort_imports_preorder(sources, imports, idx, acc) ==
    IF acc.failed \/ idx > Len(imports) THEN acc
    ELSE IF ~sources[imports[idx]].in THEN [acc EXCEPT !.failed = TRUE]
    ELSE toposort_imports_preorder(sources, imports, idx + 1,
                                   toposort_preorder(sources, imports[idx], acc))

RECURSIVE toposort(_, _, _)
RECURSIVE toposort_imports(_, _, _, _)
\* the lambda toposort of CompilerStack::resolveImports; acc holds
\* sourceOrder, sourcesSeen and whether solAssert(m_sources.count(path))
\* has failed
toposort(sources, source, acc) ==
    IF acc.failed \/ source \in acc.sourcesSeen THEN acc
    ELSE With(IF sources[source].ast
              THEN toposort_imports(sources, sources[source].imports, 1,
                                    [acc EXCEPT !.sourcesSeen = @ \cup {source}])
              ELSE [acc EXCEPT !.sourcesSeen = @ \cup {source}],
              LAMBDA sorted :
                IF sorted.failed THEN sorted
                ELSE [sorted EXCEPT !.sourceOrder = Append(@, source)])
\* the loop of toposort over the import directives of a source
toposort_imports(sources, imports, idx, acc) ==
    IF acc.failed \/ idx > Len(imports) THEN acc
    ELSE IF ~sources[imports[idx]].in THEN [acc EXCEPT !.failed = TRUE]
    ELSE toposort_imports(sources, imports, idx + 1,
                          toposort(sources, imports[idx], acc))

\* CompilerStack::resolveImports: toposort of every requested source of
\* m_sources, in the order of the map
RECURSIVE resolveImports(_, _, _, _)
resolveImports(sources, requested, path, acc) ==
    IF path > MaxSources THEN acc
    ELSE resolveImports(sources, requested, path + 1,
                        IF sources[path].in /\ isRequestedSource(requested, path)
                        THEN toposort(sources, path, acc)
                        ELSE acc)

\* setSources has stored a non-empty set of sources; m_stopAfter is Parsed
\* or the default, and the names requested are none (every source is
\* requested) or the one of path 1
InitImports ==
    /\ pc = "setSources"
    /\ a = NoType /\ b = NoType /\ token = "None"
    /\ ret = [op |-> "setSources", threw |-> "", message |-> "", result |-> <<>>]
    /\ NoLayout
    /\ NoCache /\ NoCompiler /\ currentScope = NoScope
    /\ NoPusher /\ NoEncoder
    /\ \E stopAfter \in {State.Parsed, State.CompilationSuccessful} :
        stack = [m_stackState |-> State.SourcesSet, m_hasError |-> FALSE,
                 m_stopAfter |-> stopAfter]
    /\ \E given \in (SUBSET Paths) \ {{}} :
        m_sources = [p \in Paths |-> [in |-> p \in given, ast |-> FALSE, imports |-> <<>>]]
    /\ sourcesToParse = [paths |-> <<>>, parsed |-> 0]
    /\ m_sourceOrder = <<>>
    /\ m_requestedContractNames \in {{}, {1}}
    /\ readCalls = <<>>

\* CompilerStack::parse up to its loop: the paths of m_sources are listed
parseBegin ==
    /\ pc = "setSources"
    /\ stack.m_stackState = State.SourcesSet
    /\ sourcesToParse' = [paths |-> Keys({p \in Paths : m_sources[p].in}), parsed |-> 0]
    /\ pc' = "parse"
    /\ ret' = [op |-> "parse", threw |-> "", message |-> "", result |-> <<>>]
    /\ UNCHANGED <<a, b, token, layoutVars, cacheVars, compilerVars, currentScope,
                   pusherVars, encoderVars, stack, m_sources, m_sourceOrder,
                   m_requestedContractNames, readCalls>>

\* one iteration of the loop of CompilerStack::parse: the parser returns
\* null or an AST with import directives, whose missing sources are loaded
\* and appended to sourcesToParse
parseSource ==
    /\ pc = "parse"
    /\ sourcesToParse.parsed < Len(sourcesToParse.paths)
    /\ \E parsedOk \in BOOLEAN,
          imports \in ImportLists(MaxImports - DirectiveCount(m_sources)) :
        \E results \in [1..Len(imports) -> BOOLEAN] :
            LET path == sourcesToParse.paths[sourcesToParse.parsed + 1]
                parsed == [m_sources EXCEPT
                              ![path] = [in |-> TRUE, ast |-> parsedOk,
                                         imports |-> IF parsedOk THEN imports ELSE <<>>]]
                loaded == IF parsedOk /\ stack.m_stopAfter >= State.ParsedAndImported
                          THEN loadMissingSources(parsed, path, results)
                          ELSE [newSources |-> {}, calls |-> <<>>]
            IN  /\ (~parsedOk => imports = <<>>)
                /\ m_sources' = [p \in Paths |->
                                    IF p \in loaded.newSources
                                    THEN [parsed[p] EXCEPT !.in = TRUE]
                                    ELSE parsed[p]]
                /\ sourcesToParse' = [paths |-> sourcesToParse.paths
                                                  \o Keys(loaded.newSources),
                                      parsed |-> sourcesToParse.parsed + 1]
                /\ readCalls' = readCalls \o loaded.calls
                /\ stack' = [stack EXCEPT !.m_hasError =
                                @ \/ ~parsedOk
                                  \/ \E idx \in 1..Len(loaded.calls) :
                                        ~loaded.calls[idx].success]
    /\ UNCHANGED <<pc, a, b, token, ret, layoutVars, cacheVars, compilerVars,
                   currentScope, pusherVars, encoderVars, m_sourceOrder,
                   m_requestedContractNames>>

\* the end of CompilerStack::parse
parseEnd ==
    /\ pc = "parse"
    /\ sourcesToParse.parsed = Len(sourcesToParse.paths)
    /\ stack' = [stack EXCEPT !.m_stackState = IF stack.m_stopAfter <= State.Parsed
                                                THEN State.Parsed
                                                ELSE State.ParsedAndImported]
    /\ ret' = [op |-> "parse", threw |-> "", message |-> "",
               result |-> <<~stack.m_hasError>>]
    /\ pc' = "parsed"
    /\ UNCHANGED <<a, b, token, layoutVars, cacheVars, compilerVars, currentScope,
                   pusherVars, encoderVars, importVars>>

\* what the toposort of resolveImports makes of the sources now in m_sources
sortedSources ==
    resolveImports(m_sources, m_requestedContractNames, 1,
                   [sourceOrder |-> <<>>, sourcesSeen |-> {}, failed |-> FALSE])

\* CompilerStack::resolveImports, as analyze() calls it: m_sourceOrder is
\* swapped in unless the assertion on a missing source has failed
resolveImportsCall ==
    /\ pc = "parsed"
    /\ stack.m_stackState = State.ParsedAndImported
    /\ m_sourceOrder' = IF sortedSources.failed THEN m_sourceOrder
                        ELSE sortedSources.sourceOrder
    /\ ret' = [op |-> "resolveImports",
               threw |-> IF sortedSources.failed THEN "InternalCompilerError" ELSE "",
               message |-> "", result |-> <<>>]
    /\ pc' = "resolved"
    /\ UNCHANGED <<a, b, token, layoutVars, cacheVars, compilerVars, currentScope,
                   pusherVars, encoderVars, stack, m_sources, sourcesToParse,
                   m_requestedContractNames, readCalls>>

NextImports == parseBegin \/ parseSource \/ parseEnd \/ resolveImportsCall

SpecImports == InitImports /\ [][NextImports]_vars

\* the position of a source in m_sourceOrder, 0 when it is not there
Position(path) ==
    IF \E idx \in 1..Len(m_sourceOrder) : m_sourceOrder[idx] = path
    THEN CHOOSE idx \in 1..Len(m_sourceOrder) : m_sourceOrder[idx] = path
    ELSE 0

\* the sources a source imports
Imports(path) == IF m_sources[path].ast THEN Elements(m_sources[path].imports) ELSE {}

\* the sources reachable from a set of sources through imports
RECURSIVE ImportClosure(_)
ImportClosure(set) ==
    IF (set \cup UNION {Imports(p) : p \in set}) = set THEN set
    ELSE ImportClosure(set \cup UNION {Imports(p) : p \in set})

\* C25: after resolveImports, m_sourceOrder holds every requested source and
\* every source it transitively imports exactly once, and an imported source
\* stands before each source that imports it unless the import lies on an
\* import cycle.
C25_SourceOrderTopological ==
    (pc = "resolved" /\ ret.threw = "") =>
        /\ ImportClosure({p \in Paths : m_sources[p].in
                            /\ isRequestedSource(m_requestedContractNames, p)})
             \subseteq Elements(m_sourceOrder)
        /\ \A idx, other \in 1..Len(m_sourceOrder) :
              m_sourceOrder[idx] = m_sourceOrder[other] => idx = other
        /\ \A importer \in Elements(m_sourceOrder) :
              \A imported \in Imports(importer) :
                 \/ Position(imported) < Position(importer)
                 \/ importer \in ImportClosure({imported})

\* C25 witness: two sources that import each other and a third one they
\* import have been ordered
C25_CycleOrdered ==
    /\ pc = "resolved" /\ ret.threw = ""
    /\ Len(m_sourceOrder) = 3
    /\ \E p, q \in Paths :
          /\ p # q /\ q \in Imports(p) /\ p \in Imports(q)
          /\ \E r \in Imports(p) \cup Imports(q) : r \notin {p, q}

\* C26: parse() lists no source path twice for parsing, calls the read
\* callback at most once for an import path within one importing file and
\* never for a path already in m_sources, and at its end m_sources holds
\* every path the callback loaded.
C26_EachSourceReadOnce ==
    pc \in {"parse", "parsed"} =>
        /\ \A idx, other \in 1..Len(sourcesToParse.paths) :
              sourcesToParse.paths[idx] = sourcesToParse.paths[other] => idx = other
        /\ \A idx, other \in 1..Len(readCalls) :
              (/\ readCalls[idx].importer = readCalls[other].importer
               /\ readCalls[idx].path = readCalls[other].path) => idx = other
        /\ \A idx \in 1..Len(readCalls) : ~readCalls[idx].known
        /\ pc = "parsed" =>
              \A idx \in 1..Len(readCalls) :
                 readCalls[idx].success => m_sources[readCalls[idx].path].in

====
